---------------------------- MODULE Spec2Model ----------------------------
(***************************************************************************)
(* Media-Analyzer: the transcription route (POST /api/transcribe), the     *)
(* quota gate it consults (lib/db), and the summarization route            *)
(* (POST /api/summarize).                                                  *)
(*                                                                         *)
(* Strings are sequences of one-character strings, so that trim, split,    *)
(* join and length are computed the way the code computes them.            *)
(***************************************************************************)
EXTENDS Integers, Sequences, FiniteSets

(***************************************************************************)
(* Bounds of the model                                                     *)
(***************************************************************************)
\* Largest number of audio segments ffmpeg produces for one upload.
MaxSegments == 2
\* The safety threshold splitTextByNewlines is called with.  The code passes
\* 200_000 (route.ts:537); the model passes this scaled value so that
\* transcripts longer than the threshold occur.
MaxSafeChars == 3

\* The transcripts sent for a summary have at most MaxParagraphs paragraphs.
MaxParagraphs == 3
\* The code passes 12_000 to splitIntoChunks (route.ts:190); the model passes
\* this scaled value.
MaxSummaryChars == 4
\* The texts given to a chunker on its own have at most MaxTextLen characters
\* and the thresholds are 1..MaxThreshold.
MaxTextLen == 5
MaxThreshold == 4

(***************************************************************************)
(* Program constants                                                       *)
(***************************************************************************)
FREE_UPLOAD_LIMIT == 10
\* "chunk-%03d.mp3": the minimum number of digits of a segment's index.
SegmentDigits == 3

\* null / undefined, by the type it stands in for.
Null == "null"
NoId == 0
NoNumber == -1
NoText == <<>>

(***************************************************************************)
(* Strings                                                                 *)
(***************************************************************************)
\* String.prototype.trim's white space, restricted to the model's alphabet.
IsSpace(c) == c \in {" ", "\n", "\t"}

RECURSIVE TrimStart(_)
TrimStart(s) ==
  IF s # <<>> /\ IsSpace(Head(s)) THEN TrimStart(Tail(s)) ELSE s

RECURSIVE TrimEnd(_)
TrimEnd(s) ==
  IF s # <<>> /\ IsSpace(s[Len(s)]) THEN TrimEnd(SubSeq(s, 1, Len(s) - 1)) ELSE s

\* s.trim()
Trim(s) == TrimEnd(TrimStart(s))

\* parts.join(sep)
RECURSIVE Join(_, _)
Join(parts, sep) ==
  IF parts = <<>> THEN <<>>
  ELSE IF Len(parts) = 1 THEN parts[1]
  ELSE parts[1] \o sep \o Join(Tail(parts), sep)

\* text.split("\n"): always at least one (possibly empty) line.
RECURSIVE SplitLines(_)
SplitLines(s) ==
  IF \A i \in 1..Len(s) : s[i] # "\n" THEN <<s>>
  ELSE LET k == CHOOSE i \in 1..Len(s) :
                  s[i] = "\n" /\ \A j \in 1..(i - 1) : s[j] # "\n"
       IN <<SubSeq(s, 1, k - 1)>> \o SplitLines(SubSeq(s, k + 1, Len(s)))

NL == <<"\n">>
BlankLine == <<"\n", "\n">>

\* The loop of splitTextByNewlines over lines[k..], with the chunks pushed
\* so far and the running buffer.
RECURSIVE NewlineLoop_AtLeast(_, _, _, _, _)
\* The loop flushing already when the buffer reaches the threshold.
NewlineLoop_AtLeast(lines, k, chunks, buf, maxChars) ==
  IF k > Len(lines)
  THEN IF Trim(buf) # <<>> THEN Append(chunks, buf) ELSE chunks
  ELSE LET line == lines[k]
           next == IF buf # <<>> THEN buf \o NL \o line ELSE line
       IN IF Len(next) >= maxChars /\ buf # <<>>
          THEN NewlineLoop_AtLeast(lines, k + 1, Append(chunks, buf), line, maxChars)
          ELSE NewlineLoop_AtLeast(lines, k + 1, chunks, next, maxChars)

RECURSIVE NewlineLoop(_, _, _, _, _)
NewlineLoop(lines, k, chunks, buf, maxChars) ==
  IF k > Len(lines)
  THEN IF Trim(buf) # <<>> THEN Append(chunks, buf) ELSE chunks
  ELSE LET line == lines[k]
           next == IF buf # <<>> THEN buf \o NL \o line ELSE line
       IN IF Len(next) > maxChars /\ buf # <<>>
          THEN NewlineLoop(lines, k + 1, Append(chunks, buf), line, maxChars)
          ELSE NewlineLoop(lines, k + 1, chunks, next, maxChars)

splitTextByNewlines(text, maxChars) ==
  NewlineLoop(SplitLines(text), 1, <<>>, <<>>, maxChars)

(***************************************************************************)
(* Segment file names: ffmpeg's "chunk-%03d.mp3" and the sort by            *)
(* localeCompare (segmentAudioFromVideo)                                   *)
(***************************************************************************)
RECURSIVE SplitParagraphs(_)
\* text.split(/\n\s*\n/): the leftmost match starts at the first newline that
\* only white space separates from a later newline, and \s* being greedy it
\* ends at the last such newline.
SplitParagraphs(text) ==
  LET Ends(i) == {j \in (i + 1)..Len(text) :
                    /\ text[j] = "\n"
                    /\ \A k \in (i + 1)..(j - 1) : IsSpace(text[k])}
      starts == {i \in 1..Len(text) : text[i] = "\n" /\ Ends(i) # {}}
  IN IF starts = {}
     THEN <<text>>
     ELSE LET i == CHOOSE x \in starts : \A y \in starts : x <= y
              j == CHOOSE x \in Ends(i) : \A y \in Ends(i) : x >= y
          IN <<SubSeq(text, 1, i - 1)>>
               \o SplitParagraphs(SubSeq(text, j + 1, Len(text)))

RECURSIVE ParagraphLoop_ChecksBuf(_, _, _, _, _)
\* The loop testing the buffer it has, not the buffer it would have.
ParagraphLoop_ChecksBuf(paragraphs, k, chunks, buf, maxChars) ==
  IF k > Len(paragraphs)
  THEN IF Trim(buf) # <<>> THEN Append(chunks, buf) ELSE chunks
  ELSE LET para == paragraphs[k]
           next == IF buf # <<>> THEN buf \o BlankLine \o para ELSE para
       IN IF Len(buf) > maxChars /\ buf # <<>>
          THEN ParagraphLoop_ChecksBuf(paragraphs, k + 1, Append(chunks, buf), para, maxChars)
          ELSE ParagraphLoop_ChecksBuf(paragraphs, k + 1, chunks, next, maxChars)

RECURSIVE ParagraphLoop(_, _, _, _, _)
\* The loop of splitIntoChunks from paragraph k on, and its final push.
ParagraphLoop(paragraphs, k, chunks, buf, maxChars) ==
  IF k > Len(paragraphs)
  THEN IF Trim(buf) # <<>> THEN Append(chunks, buf) ELSE chunks
  ELSE LET para == paragraphs[k]
           next == IF buf # <<>> THEN buf \o BlankLine \o para ELSE para
       IN IF Len(next) > maxChars /\ buf # <<>>
          THEN ParagraphLoop(paragraphs, k + 1, Append(chunks, buf), para, maxChars)
          ELSE ParagraphLoop(paragraphs, k + 1, chunks, next, maxChars)

splitIntoChunks(text, maxChars) ==
  ParagraphLoop(SplitParagraphs(text), 1, <<>>, <<>>, maxChars)

Digits == <<"0", "1", "2", "3", "4", "5", "6", "7", "8", "9">>

\* The decimal digits of n, most significant first.
RECURSIVE Decimal(_)
Decimal(n) ==
  IF n < 10 THEN <<Digits[n + 1]>>
  ELSE Append(Decimal(n \div 10), Digits[(n % 10) + 1])

\* printf's %0<width>d: zero-padded to at least `width` digits, never cut.
ZeroPad(n, width) ==
  LET d == Decimal(n)
  IN [i \in 1..(width - Len(d)) |-> "0"] \o d

ChunkPrefix == <<"c", "h", "u", "n", "k", "-">>
ChunkSuffix == <<".", "m", "p", "3">>

\* The name ffmpeg's segment muxer gives segment number i (from 0) under the
\* pattern "chunk-%03d.mp3".
SegmentName(i) == ChunkPrefix \o ZeroPad(i, SegmentDigits) \o ChunkSuffix

startsWith(name, prefix) ==
  Len(name) >= Len(prefix) /\ SubSeq(name, 1, Len(prefix)) = prefix

endsWith(name, suffix) ==
  /\ Len(name) >= Len(suffix)
  /\ SubSeq(name, Len(name) - Len(suffix) + 1, Len(name)) = suffix

\* The collation weight localeCompare gives the characters of a segment
\* name: punctuation before digits before letters, letters alphabetically.
CollationWeight(c) ==
  CASE c = "-" -> 0
    [] c = "." -> 1
    [] c \in {Digits[k] : k \in 1..10} -> 1 + (CHOOSE k \in 1..10 : Digits[k] = c)
    [] c = "c" -> 20
    [] c = "h" -> 21
    [] c = "k" -> 22
    [] c = "m" -> 23
    [] c = "n" -> 24
    [] c = "p" -> 25
    [] c = "u" -> 26
    [] OTHER -> 30

\* a.localeCompare(b) < 0
localeCompareLess(a, b) ==
  LET n == IF Len(a) < Len(b) THEN Len(a) ELSE Len(b)
      same(k) == \A j \in 1..k : a[j] = b[j]
  IN IF same(n) THEN Len(a) < Len(b)
     ELSE LET d == CHOOSE k \in 1..n : a[k] # b[k] /\ same(k - 1)
          IN CollationWeight(a[d]) < CollationWeight(b[d])

\* entries.sort((a, b) => a.localeCompare(b)): the names in ascending order.
SortNames(entries) ==
  LET ranked == {<<Cardinality({g \in entries : localeCompareLess(g, f)}), f>> :
                   f \in entries}
  IN [k \in 1..Cardinality(entries) |->
        (CHOOSE p \in ranked : p[1] = k - 1)[2]]

(***************************************************************************)
(* The quota gate (lib/db): visitors and users tables                      *)
(***************************************************************************)
\* SELECT upload_count FROM visitors WHERE id = ?  ->  rows[0]?.upload_count ?? 0
getUploadCount(rows, visitorId) ==
  IF \E row \in rows : row.id = visitorId
  THEN (CHOOSE row \in rows : row.id = visitorId).upload_count
  ELSE 0

Max(a, b) == IF a >= b THEN a ELSE b

\* canUpload with the limit itself still allowed.
canUpload_AtMost(rows, visitorId) ==
  LET count == getUploadCount(rows, visitorId)
      remaining == Max(0, FREE_UPLOAD_LIMIT - count)
  IN [allowed |-> count <= FREE_UPLOAD_LIMIT, remaining |-> remaining, used |-> count]

canUpload(rows, visitorId) ==
  LET count == getUploadCount(rows, visitorId)
      remaining == Max(0, FREE_UPLOAD_LIMIT - count)
  IN [allowed |-> count < FREE_UPLOAD_LIMIT, remaining |-> remaining, used |-> count]

\* UPDATE visitors SET upload_count = upload_count + 1 WHERE id = ?
UpdateVisitorCount(rows, visitorId) ==
  {IF row.id = visitorId
   THEN [row EXCEPT !.upload_count = row.upload_count + 1]
   ELSE row : row \in rows}

\* UPDATE users SET upload_count = upload_count + 1 WHERE id = ?
UpdateUserCount(counts, userId) ==
  [u \in DOMAIN counts |-> IF u = userId THEN counts[u] + 1 ELSE counts[u]]

\* SELECT upload_count FROM users WHERE id = ?  ->  rows[0]?.upload_count ?? 0
UserUploadCount(counts, userId) ==
  IF userId \in DOMAIN counts THEN counts[userId] ELSE 0

(***************************************************************************)
(* State                                                                   *)
(***************************************************************************)
\* Transcription requests in flight at the same time.
Requests == {"r1", "r2"}
\* Registered accounts.
Users == {"u1"}
\* Browser fingerprints (the x-fingerprint header).
Fingerprints == {"fpA", "fpB"}
\* Upload counts the tables hold when the process starts: that of the
\* visitor row, and that of each user row.
InitialCounts ==
  {<<0, 0>>, <<FREE_UPLOAD_LIMIT - 1, FREE_UPLOAD_LIMIT>>, <<FREE_UPLOAD_LIMIT, 0>>}
\* Texts the transcription service returns for a segment.
Texts == {<<>>, <<" ">>, <<"a">>, <<"b">>}
\* Messages of the errors the file system, ffmpeg, the database and the
\* transcription client throw.
ErrorMessages == {"E1", "E2"}

VARIABLES
  OPENAI_API_KEY,  \* whether process.env.OPENAI_API_KEY is set
  dbInitialized,   \* the route module's flag
  visitors,        \* the visitors table: a set of rows
  users,           \* the users table: user id -> upload_count
  uuids,           \* how many crypto.randomUUID() values have been issued
  disk,            \* the paths that exist under <tmp>/video-transcriber
  req,             \* request -> the handler's position and local variables
  calls,           \* request -> the segment files submitted for transcription
  OPUS_API_KEY,        \* process.env.OPUS_API_KEY
  OPUS_PROVIDER,       \* process.env.OPUS_PROVIDER
  OPUS_API_BASE_URL,   \* process.env.OPUS_API_BASE_URL
  sreq,            \* the summarize handler's position and local variables
  chunking,        \* one use of a chunker: its arguments and what it returned
  client,          \* the page: its React state and the position of handleSubmit
  accounts,        \* the other columns of the users table, and the signup
                   \* and login handlers' positions and local variables
  fingerprinting   \* lib/fingerprint: the module's two variables, the load
                   \* in progress and the callers of getFingerprint

\* The state of POST /api/summarize, which POST /api/transcribe never touches.
summarizeVars == <<OPUS_API_KEY, OPUS_PROVIDER, OPUS_API_BASE_URL, sreq>>

vars == <<OPENAI_API_KEY, dbInitialized, visitors, users, uuids, disk, req, calls,
          OPUS_API_KEY, OPUS_PROVIDER, OPUS_API_BASE_URL, sreq, chunking, client, accounts,
          fingerprinting>>

\* A response: the JSON body's fields, the status and the visitor_id cookie
\* it sets (Null: none).
Response(status) ==
  [status |-> status, error |-> Null, transcript |-> NoText, used |-> NoNumber,
   remaining |-> NoNumber, unlimited |-> FALSE, cookie |-> NoId]

NoResponse == Response(0)

\* let visitor = null
NoVisitor == [id |-> NoId, uploadCount |-> 0, isNew |-> FALSE]
\* The arguments of a getOrCreateVisitor call in progress; none outside it.
NoLookup == [cookieId |-> NoId, fingerprint |-> Null]
\* Nothing was thrown.
NoError == [isError |-> FALSE, message |-> Null]

\* The locals of POST before its first statement.
NewRequest ==
  [pc |-> "idle", loggedInUserId |-> Null, lookup |-> NoLookup,
   visitor |-> NoVisitor, file |-> Null, jobDir |-> NoId,
   chunkFiles |-> <<>>, next |-> 1, transcriptParts |-> <<>>,
   safeTranscript |-> NoText, cleanup |-> "none", recorded |-> 0,
   replies |-> <<>>, thrown |-> NoError, response |-> NoResponse]

\* A response of POST /api/summarize: the status and the JSON body's fields.
SummaryResponse(status) == [status |-> status, error |-> Null, summary |-> NoText]

\* The summarize handler before its request arrives.
NewSummarize ==
  [pc |-> "idle", summaryType |-> Null, transcript |-> NoText,
   instruction |-> Null, provider |-> Null, chunks |-> <<>>, i |-> 0,
   partials |-> <<>>, awaiting |-> FALSE, sent |-> <<>>, settled |-> 0,
   cause |-> Null, thrown |-> [name |-> Null, message |-> Null],
   response |-> SummaryResponse(0)]

\* No chunker is called on its own.
NoChunking ==
  [pc |-> "idle", policy |-> Null, text |-> NoText, maxChars |-> 0,
   chunks |-> <<>>, picked |-> 0, again |-> <<>>]

\* No summarize request arrives.
\* The callers of getFingerprint: the page's mount effect, run again by a
\* remount or a second tab's hot reload.
Callers == {"c1", "c2", "c3"}

\* lib/fingerprint when the module is loaded: nothing cached, no promise, and
\* no call made.
NewFingerprinting ==
  [cachedFingerprint |-> Null, loadingPromise |-> Null, settledWith |-> Null,
   stage |-> "none", loads |-> 0,
   caller |-> [c \in Callers |-> [pc |-> "idle", value |-> Null]]]

\* bcrypt: hash(password), which compare(password, hash) recognises.
Hash(password) == <<"$">> \o password

\* The email and the password of the registered account.
UserEmail == <<"u", "@", "x">>
UserPassword == <<"s", "e", "c", "r", "e", "t">>

\* The locals of the signup route's POST before its first statement.
NewSignup ==
  [pc |-> "idle", email |-> NoText, password |-> NoText, visitorId |-> NoId,
   id |-> Null, transferCount |-> 0, status |-> 0, authCookie |-> Null]

\* The locals of the login route's POST before its first statement.
NewLogin ==
  [pc |-> "idle", email |-> NoText, password |-> NoText, user |-> Null,
   status |-> 0, authCookie |-> Null]

\* The users table beside upload_count (one row per registered account), the
\* dbInitialized flags of the two route modules, and no request yet.
NewAccounts ==
  [rows |-> {[id |-> u, email |-> UserEmail, password_hash |-> Hash(UserPassword),
              visitor_id |-> NoId, logins |-> 0] : u \in Users},
   signupDb |-> FALSE, loginDb |-> FALSE,
   signup |-> NewSignup, login |-> NewLogin]

\* The page after mounting: useState's initial values, and no request sent.
NewClient ==
  [pc |-> "idle", file |-> Null, fingerprint |-> Null, summaryType |-> "brief",
   status |-> "idle", transcript |-> NoText, summary |-> NoText, error |-> "",
   remaining |-> NoNumber, limitReached |-> FALSE, requests |-> <<>>]

SummarizeIdle ==
  /\ OPUS_API_KEY = <<>>
  /\ OPUS_PROVIDER = ""
  /\ OPUS_API_BASE_URL = ""
  /\ sreq = NewSummarize

Init ==
  /\ chunking = NoChunking
  /\ client = NewClient
  /\ accounts = NewAccounts
  /\ fingerprinting = NewFingerprinting
  /\ SummarizeIdle
  /\ OPENAI_API_KEY \in BOOLEAN
  /\ dbInitialized = FALSE
  /\ \E c \in InitialCounts :
       /\ visitors = {[id |-> 1, fingerprint |-> "fpA", upload_count |-> c[1]]}
       /\ users = [u \in Users |-> c[2]]
  /\ uuids = 1
  /\ disk = {}
  /\ req = [r \in Requests |-> NewRequest]
  /\ calls = [r \in Requests |-> <<>>]

\* NextResponse.json({ error }, { status }) and the handler returns.
Fail(r, status, error) ==
  [req EXCEPT ![r].pc = "done",
              ![r].lookup = NoLookup,
              ![r].response = [Response(status) EXCEPT !.error = error]]

\* error instanceof Error ? error.message : "Failed to transcribe video."
CatchMessage(error) ==
  IF error.isError THEN error.message ELSE "Failed to transcribe video."

\* The catch block of POST: a thrown value ends the request with status 500.
Catch(r, error) ==
  [req EXCEPT ![r].pc = "done",
              ![r].thrown = error,
              ![r].response = [Response(500) EXCEPT !.error = CatchMessage(error)]]

\* The values the libraries throw: Error objects.
Errors(messages) == {[isError |-> TRUE, message |-> m] : m \in messages}

(***************************************************************************)
(* POST /api/transcribe, one action per await                              *)
(***************************************************************************)
\* Values of the visitor_id cookie: none, an id no row has, the id of the
\* row present at the start.
CookieValues == {NoId, -1, 1}

\* The handler starts: the API key check and the dbInitialized test.
Receive(r) ==
  /\ req[r].pc = "idle"
  /\ req' = IF ~OPENAI_API_KEY
            THEN Fail(r, 500, "Missing OPENAI_API_KEY in environment.")
            ELSE IF ~dbInitialized
            THEN [req EXCEPT ![r].pc = "initDatabase"]
            ELSE [req EXCEPT ![r].pc = "identify"]
  /\ UNCHANGED <<fingerprinting, accounts, client, chunking, summarizeVars,
                 OPENAI_API_KEY, dbInitialized, visitors, users, uuids, disk, calls>>

\* await initDatabase() settles.
InitDatabase(r, messages) ==
  /\ req[r].pc = "initDatabase"
  /\ \/ /\ dbInitialized' = TRUE
        /\ req' = [req EXCEPT ![r].pc = "identify"]
     \/ /\ Errors(messages) # {}
        /\ req' = Fail(r, 500, "Database connection failed.")
        /\ UNCHANGED dbInitialized
  /\ UNCHANGED <<fingerprinting, accounts, client, chunking, summarizeVars,
                 OPENAI_API_KEY, visitors, users, uuids, disk, calls>>

\* Identify without the test of loggedInUserId: a user is looked up as a
\* visitor.
Identify_UserAsVisitor(r, userIds, cookies, fingerprints) ==
  /\ req[r].pc = "identify"
  /\ \E user \in userIds, cookie \in cookies, fp \in fingerprints :
       req' = [req EXCEPT
                 ![r].loggedInUserId = user,
                 ![r].lookup = [cookieId |-> cookie, fingerprint |-> fp],
                 ![r].pc = IF cookie # NoId THEN "selectById"
                           ELSE IF fp # Null THEN "selectByFingerprint"
                           ELSE "insertVisitor"]
  /\ UNCHANGED <<fingerprinting, accounts, client, chunking, summarizeVars,
                 OPENAI_API_KEY, dbInitialized, visitors, users, uuids, disk, calls>>

\* getCurrentUserId(), the visitor_id cookie and the x-fingerprint header;
\* a visitor goes on to getOrCreateVisitor(visitorCookie, fingerprint) and its
\* first statement.
Identify(r, userIds, cookies, fingerprints) ==
  /\ req[r].pc = "identify"
  /\ \E user \in userIds, cookie \in cookies, fp \in fingerprints :
       req' = [req EXCEPT
                 ![r].loggedInUserId = user,
                 ![r].lookup = IF user # Null THEN NoLookup
                               ELSE [cookieId |-> cookie, fingerprint |-> fp],
                 ![r].pc = IF user # Null THEN "formData"
                           ELSE IF cookie # NoId THEN "selectById"
                           ELSE IF fp # Null THEN "selectByFingerprint"
                           ELSE "insertVisitor"]
  /\ UNCHANGED <<fingerprinting, accounts, client, chunking, summarizeVars,
                 OPENAI_API_KEY, dbInitialized, visitors, users, uuids, disk, calls>>

\* getOrCreateVisitor: SELECT id, upload_count FROM visitors WHERE id = ?
SelectById(r) ==
  /\ req[r].pc = "selectById"
  /\ LET rows == {row \in visitors : row.id = req[r].lookup.cookieId}
     IN IF rows # {}
        THEN \E row \in rows :
               req' = [req EXCEPT
                         ![r].lookup = NoLookup,
                         ![r].visitor = [id |-> row.id, uploadCount |-> row.upload_count,
                                         isNew |-> FALSE],
                         ![r].pc = "canUpload"]
        ELSE req' = [req EXCEPT
                       ![r].pc = IF req[r].lookup.fingerprint # Null
                                 THEN "selectByFingerprint" ELSE "insertVisitor"]
  /\ UNCHANGED <<fingerprinting, accounts, client, chunking, summarizeVars,
                 OPENAI_API_KEY, dbInitialized, visitors, users, uuids, disk, calls>>

\* getOrCreateVisitor: SELECT ... WHERE fingerprint = ?; rows[0] is any of
\* the matching rows.
SelectByFingerprint(r) ==
  /\ req[r].pc = "selectByFingerprint"
  /\ LET rows == {row \in visitors : row.fingerprint = req[r].lookup.fingerprint}
     IN IF rows # {}
        THEN \E row \in rows :
               req' = [req EXCEPT
                         ![r].lookup = NoLookup,
                         ![r].visitor = [id |-> row.id, uploadCount |-> row.upload_count,
                                         isNew |-> FALSE],
                         ![r].pc = "canUpload"]
        ELSE req' = [req EXCEPT ![r].pc = "insertVisitor"]
  /\ UNCHANGED <<fingerprinting, accounts, client, chunking, summarizeVars,
                 OPENAI_API_KEY, dbInitialized, visitors, users, uuids, disk, calls>>

\* getOrCreateVisitor: INSERT INTO visitors (id, fingerprint, upload_count)
\* with a fresh crypto.randomUUID().
InsertVisitor(r) ==
  /\ req[r].pc = "insertVisitor"
  /\ LET newId == uuids + 1
     IN /\ uuids' = newId
        /\ visitors' = visitors \cup
             {[id |-> newId, fingerprint |-> req[r].lookup.fingerprint,
               upload_count |-> 0]}
        /\ req' = [req EXCEPT
                     ![r].lookup = NoLookup,
                     ![r].visitor = [id |-> newId, uploadCount |-> 0, isNew |-> TRUE],
                     ![r].pc = "canUpload"]
  /\ UNCHANGED <<fingerprinting, accounts, client, chunking, summarizeVars,
                 OPENAI_API_KEY, dbInitialized, users, disk, calls>>

\* A statement of getOrCreateVisitor throws: "Visitor lookup failed".
VisitorLookupFails(r, messages) ==
  /\ req[r].pc \in {"selectById", "selectByFingerprint", "insertVisitor"}
  /\ Errors(messages) # {}
  /\ req' = Fail(r, 500, "Database error.")
  /\ UNCHANGED <<fingerprinting, accounts, client, chunking, summarizeVars,
                 OPENAI_API_KEY, dbInitialized, visitors, users, uuids, disk, calls>>

\* The limit is noticed but the handler goes on.
LimitReached_GoesOn(r, usage) ==
  [req EXCEPT ![r].pc = "formData"]

\* The 403 of a visitor out of free uploads; a new visitor still gets the cookie.
LimitReached(r, usage) ==
  [req EXCEPT
     ![r].pc = "done",
     ![r].response = [Response(403) EXCEPT
                        !.error = "limit_reached",
                        !.used = usage.used,
                        !.remaining = 0,
                        !.cookie = IF req[r].visitor.isNew
                                   THEN req[r].visitor.id ELSE NoId]]

\* The pre-check that already counts the upload it allows.
CheckQuota_RecordsEarly(r) ==
  /\ req[r].pc = "canUpload"
  /\ LET usage == canUpload(visitors, req[r].visitor.id)
     IN IF ~usage.allowed
        THEN /\ req' = LimitReached(r, usage)
             /\ UNCHANGED visitors
        ELSE /\ req' = [req EXCEPT ![r].pc = "formData"]
             /\ visitors' = UpdateVisitorCount(visitors, req[r].visitor.id)
  /\ UNCHANGED <<fingerprinting, accounts, client, chunking, summarizeVars,
                 OPENAI_API_KEY, dbInitialized, users, uuids, disk, calls>>

\* const usage = await canUpload(visitor.id)
CheckQuota(r) ==
  /\ req[r].pc = "canUpload"
  /\ LET usage == canUpload(visitors, req[r].visitor.id)
     IN req' = IF ~usage.allowed
               THEN LimitReached(r, usage)
               ELSE [req EXCEPT ![r].pc = "formData"]
  /\ UNCHANGED <<fingerprinting, accounts, client, chunking, summarizeVars,
                 OPENAI_API_KEY, dbInitialized, visitors, users, uuids, disk, calls>>

\* Names of the uploaded file (file.name).
FileNames == {"video.mp4"}

\* request.formData(); with a file, the try block starts and names the job
\* directory with a fresh crypto.randomUUID().
ReadForm(r, files) ==
  /\ req[r].pc = "formData"
  /\ \E file \in files :
       IF file = Null
       THEN /\ req' = Fail(r, 400, "No video file provided.")
            /\ UNCHANGED uuids
       ELSE /\ uuids' = uuids + 1
            /\ req' = [req EXCEPT ![r].file = file,
                                  ![r].jobDir = uuids + 1,
                                  ![r].pc = "mkdir"]
  /\ UNCHANGED <<fingerprinting, accounts, client, chunking, summarizeVars,
                 OPENAI_API_KEY, dbInitialized, visitors, users, disk, calls>>

audioDir(jobDir) == <<jobDir, "audio">>
\* path.join(jobDir, file.name || "upload") on the names met here: path.join
\* resolves a leading ".." against jobDir, which leaves a file of the
\* directory that holds every job directory (written with NoId for the job).
ParentPrefixed == "../video.mp4"
videoPath(jobDir, file) ==
  IF file = ParentPrefixed THEN <<NoId, "video.mp4">>
  ELSE IF file = "" THEN <<jobDir, "upload">>
  ELSE <<jobDir, file>>

\* await fs.mkdir(audioDir, { recursive: true })
Mkdir(r, messages) ==
  /\ req[r].pc = "mkdir"
  /\ \/ /\ disk' = disk \cup {<<req[r].jobDir>>, audioDir(req[r].jobDir)}
        /\ req' = [req EXCEPT ![r].pc = "writeFile"]
     \/ /\ \E e \in Errors(messages) : req' = Catch(r, e)
        /\ UNCHANGED disk
  /\ UNCHANGED <<fingerprinting, accounts, client, chunking, summarizeVars,
                 OPENAI_API_KEY, dbInitialized, visitors, users, uuids, calls>>

\* await fs.writeFile(videoPath, ...)
WriteVideo(r, messages) ==
  /\ req[r].pc = "writeFile"
  /\ \/ /\ disk' = disk \cup {videoPath(req[r].jobDir, req[r].file)}
        /\ req' = [req EXCEPT ![r].pc = "ffmpeg"]
     \/ /\ \E e \in Errors(messages) : req' = Catch(r, e)
        /\ UNCHANGED disk
  /\ UNCHANGED <<fingerprinting, accounts, client, chunking, summarizeVars,
                 OPENAI_API_KEY, dbInitialized, visitors, users, uuids, calls>>

\* fs.readdir(outDir)
readdir(paths, outDir) ==
  {p[3] : p \in {q \in paths : Len(q) = 3 /\ SubSeq(q, 1, 2) = outDir}}

\* What segmentAudioFromVideo returns once ffmpeg has ended: readdir,
\* filter, sort, and each name joined to outDir.
segmentAudioFromVideo(paths, outDir) ==
  LET entries == readdir(paths, outDir)
      names == SortNames({name \in entries :
                  startsWith(name, ChunkPrefix) /\ endsWith(name, ChunkSuffix)})
  IN [k \in 1..Len(names) |-> outDir \o <<names[k]>>]

\* path.basename(chunkPath)
basename(path) == path[Len(path)]

Placeholder ==
  <<"N", "o", " ", "t", "r", "a", "n", "s", "c", "r", "i", "p", "t", " ",
    "t", "e", "x", "t", " ", "w", "a", "s", " ",
    "p", "r", "o", "d", "u", "c", "e", "d", ".">>

\* The transcript without the placeholder for an empty one.
SafeTranscript_NoPlaceholder(transcriptParts, maxChars) ==
  LET combined == Trim(Join(transcriptParts, BlankLine))
  IN Join(splitTextByNewlines(combined, maxChars), BlankLine)

\* combined, finalTranscript and safeTranscript from the collected parts.
SafeTranscript(transcriptParts, maxChars) ==
  LET combined == Trim(Join(transcriptParts, BlankLine))
      finalTranscript == IF combined # <<>> THEN combined ELSE Placeholder
  IN Join(splitTextByNewlines(finalTranscript, maxChars), BlankLine)

EmptyMedia ==
  [isError |-> TRUE, message |-> "Failed to extract audio chunks from the video."]

\* segmentAudioFromVideo settles and an empty list of segments is accepted:
\* the loop over it ends at once.
SegmentAudio_NoEmptyCheck(r, counts, messages) ==
  /\ req[r].pc = "ffmpeg"
  /\ \/ \E n \in counts :
          LET outDir == audioDir(req[r].jobDir)
              written == disk \cup {outDir \o <<SegmentName(i)>> : i \in 0..(n - 1)}
              chunkFiles == segmentAudioFromVideo(written, outDir)
          IN /\ disk' = written
             /\ req' = IF Len(chunkFiles) = 0
                       THEN [req EXCEPT
                               ![r].safeTranscript = SafeTranscript(<<>>, MaxSafeChars),
                               ![r].pc = "cleanup"]
                       ELSE [req EXCEPT ![r].chunkFiles = chunkFiles,
                                        ![r].next = 1,
                                        ![r].pc = "transcribe"]
     \/ /\ \E e \in Errors(messages) : req' = Catch(r, e)
        /\ UNCHANGED disk
  /\ UNCHANGED <<fingerprinting, accounts, client, chunking, summarizeVars,
                 OPENAI_API_KEY, dbInitialized, visitors, users, uuids, calls>>

\* segmentAudioFromVideo settles: ffmpeg wrote n segment files, or an error
\* (binary not found, unreadable input); no segment at all is thrown as an
\* error too.
SegmentAudio(r, counts, messages) ==
  /\ req[r].pc = "ffmpeg"
  /\ \/ \E n \in counts :
          LET outDir == audioDir(req[r].jobDir)
              written == disk \cup {outDir \o <<SegmentName(i)>> : i \in 0..(n - 1)}
              chunkFiles == segmentAudioFromVideo(written, outDir)
          IN /\ disk' = written
             /\ req' = IF Len(chunkFiles) = 0
                       THEN Catch(r, EmptyMedia)
                       ELSE [req EXCEPT ![r].chunkFiles = chunkFiles,
                                        ![r].next = 1,
                                        ![r].pc = "transcribe"]
     \/ /\ \E e \in Errors(messages) : req' = Catch(r, e)
        /\ UNCHANGED disk
  /\ UNCHANGED <<fingerprinting, accounts, client, chunking, summarizeVars,
                 OPENAI_API_KEY, dbInitialized, visitors, users, uuids, calls>>

\* await fs.readFile(chunkPath) throws: the segment is not submitted.
ReadChunkFails(r, messages) ==
  /\ req[r].pc = "transcribe"
  /\ \E e \in Errors(messages) : req' = Catch(r, e)
  /\ UNCHANGED <<fingerprinting, accounts, client, chunking, summarizeVars,
                 OPENAI_API_KEY, dbInitialized, visitors, users, uuids, disk, calls>>

\* A rejected call that is submitted again instead of ending the request.
TranscriptionFails_Retries(r, messages) ==
  /\ req[r].pc = "transcribe"
  /\ Errors(messages) # {}
  /\ calls' = [calls EXCEPT ![r] = Append(@, basename(req[r].chunkFiles[req[r].next]))]
  /\ UNCHANGED <<fingerprinting, accounts, client, chunking, summarizeVars,
                 OPENAI_API_KEY, dbInitialized, visitors, users, uuids, disk, req>>

\* client.audio.transcriptions.create rejects for the submitted segment.
TranscriptionFails(r, messages) ==
  /\ req[r].pc = "transcribe"
  /\ calls' = [calls EXCEPT ![r] = Append(@, basename(req[r].chunkFiles[req[r].next]))]
  /\ \E e \in Errors(messages) : req' = Catch(r, e)
  /\ UNCHANGED <<fingerprinting, accounts, client, chunking, summarizeVars,
                 OPENAI_API_KEY, dbInitialized, visitors, users, uuids, disk>>

\* client.audio.transcriptions.create resolves with a text for the submitted
\* segment; after the last segment the transcript is assembled.
TranscriptionReplies(r, texts, maxChars) ==
  /\ req[r].pc = "transcribe"
  /\ calls' = [calls EXCEPT ![r] = Append(@, basename(req[r].chunkFiles[req[r].next]))]
  /\ \E text \in texts :
       LET parts == IF Trim(text) # <<>>
                    THEN Append(req[r].transcriptParts, text)
                    ELSE req[r].transcriptParts
           last == req[r].next = Len(req[r].chunkFiles)
       IN req' = [req EXCEPT
                    ![r].transcriptParts = parts,
                    ![r].replies = Append(@, text),
                    ![r].next = @ + 1,
                    ![r].safeTranscript =
                        IF last THEN SafeTranscript(parts, maxChars) ELSE @,
                    ![r].pc = IF last THEN "cleanup" ELSE "transcribe"]
  /\ UNCHANGED <<fingerprinting, accounts, client, chunking, summarizeVars,
                 OPENAI_API_KEY, dbInitialized, visitors, users, uuids, disk>>

\* Cleanup, with the failure of fs.rm surfacing to the handler's catch.
Cleanup_Surfaces(r, messages) ==
  /\ req[r].pc = "cleanup"
  /\ LET goOn(outcome) ==
           [req EXCEPT ![r].cleanup = outcome, ![r].pc = "update"]
     IN IF <<req[r].jobDir>> \in disk
        THEN \/ /\ disk' = {p \in disk : p[1] # req[r].jobDir}
                /\ req' = goOn("removed")
             \/ /\ UNCHANGED disk
                /\ \E e \in Errors(messages) :
                     req' = [Catch(r, e) EXCEPT ![r].cleanup = "failed"]
        ELSE /\ UNCHANGED disk
             /\ req' = goOn("absent")
  /\ UNCHANGED <<fingerprinting, accounts, client, chunking, summarizeVars,
                 OPENAI_API_KEY, dbInitialized, visitors, users, uuids, calls>>

\* The best-effort cleanup: pathExists(jobDir), then fs.rm(jobDir, recursive),
\* whose error is ignored.
Cleanup(r, messages) ==
  /\ req[r].pc = "cleanup"
  /\ LET goOn(outcome) ==
           IF req[r].loggedInUserId # Null \/ req[r].visitor # NoVisitor
           THEN [req EXCEPT ![r].cleanup = outcome, ![r].pc = "update"]
           ELSE [req EXCEPT ![r].cleanup = outcome,
                            ![r].pc = "done",
                            ![r].response = [Response(200) EXCEPT
                                               !.transcript = req[r].safeTranscript]]
     IN IF <<req[r].jobDir>> \in disk
        THEN \/ /\ disk' = {p \in disk : p[1] # req[r].jobDir}
                /\ req' = goOn("removed")
             \/ /\ Errors(messages) # {}
                /\ UNCHANGED disk
                /\ req' = goOn("failed")
        ELSE /\ UNCHANGED disk
             /\ req' = goOn("absent")
  /\ UNCHANGED <<fingerprinting, accounts, client, chunking, summarizeVars,
                 OPENAI_API_KEY, dbInitialized, visitors, users, uuids, calls>>

\* incrementUserUpload / incrementUpload: the UPDATE statement.
IncrementUpdate(r) ==
  /\ req[r].pc = "update"
  /\ IF req[r].loggedInUserId # Null
     THEN /\ users' = UpdateUserCount(users, req[r].loggedInUserId)
          /\ UNCHANGED visitors
     ELSE /\ visitors' = UpdateVisitorCount(visitors, req[r].visitor.id)
          /\ UNCHANGED users
  /\ req' = [req EXCEPT ![r].recorded = @ + 1, ![r].pc = "select"]
  /\ UNCHANGED <<fingerprinting, accounts, client, chunking, summarizeVars,
                 OPENAI_API_KEY, dbInitialized, uuids, disk, calls>>

\* The response of a transcription that succeeded, from the count the
\* SELECT of incrementUserUpload / incrementUpload read.
Success(r, newCount) ==
  IF req[r].loggedInUserId # Null
  THEN [Response(200) EXCEPT
          !.transcript = req[r].safeTranscript,
          !.used = newCount,
          !.unlimited = TRUE]
  ELSE [Response(200) EXCEPT
          !.transcript = req[r].safeTranscript,
          !.used = newCount,
          !.remaining = Max(0, FREE_UPLOAD_LIMIT - newCount),
          !.cookie = IF req[r].visitor.isNew THEN req[r].visitor.id ELSE NoId]

\* incrementUserUpload / incrementUpload: the SELECT statement, and the
\* handler responds.
IncrementSelect(r) ==
  /\ req[r].pc = "select"
  /\ LET newCount == IF req[r].loggedInUserId # Null
                     THEN UserUploadCount(users, req[r].loggedInUserId)
                     ELSE getUploadCount(visitors, req[r].visitor.id)
     IN req' = [req EXCEPT ![r].pc = "done", ![r].response = Success(r, newCount)]
  /\ UNCHANGED <<fingerprinting, accounts, client, chunking, summarizeVars,
                 OPENAI_API_KEY, dbInitialized, visitors, users, uuids, disk, calls>>

\* A statement of incrementUserUpload / incrementUpload throws.
IncrementFails(r, messages) ==
  /\ req[r].pc \in {"update", "select"}
  /\ \E e \in Errors(messages) : req' = Catch(r, e)
  /\ UNCHANGED <<fingerprinting, accounts, client, chunking, summarizeVars,
                 OPENAI_API_KEY, dbInitialized, visitors, users, uuids, disk, calls>>

\* One step of the handler serving request r.
Step(r, userIds, cookies, fingerprints, files, counts, texts, messages, maxChars) ==
  \/ Receive(r)
  \/ InitDatabase(r, messages)
  \/ Identify(r, userIds, cookies, fingerprints)
  \/ SelectById(r)
  \/ SelectByFingerprint(r)
  \/ InsertVisitor(r)
  \/ VisitorLookupFails(r, messages)
  \/ CheckQuota(r)
  \/ ReadForm(r, files)
  \/ Mkdir(r, messages)
  \/ WriteVideo(r, messages)
  \/ SegmentAudio(r, counts, messages)
  \/ ReadChunkFails(r, messages)
  \/ TranscriptionFails(r, messages)
  \/ TranscriptionReplies(r, texts, maxChars)
  \/ Cleanup(r, messages)
  \/ IncrementUpdate(r)
  \/ IncrementSelect(r)
  \/ IncrementFails(r, messages)

\* The first request meets every segment count, every text and every error;
\* the request running beside it uploads a video of one segment, and none of
\* its calls fails.
SegmentCounts(r) == IF r = "r1" THEN 0..MaxSegments ELSE {1}
TextsFor(r) == IF r = "r1" THEN Texts ELSE {<<"a">>}
MessagesFor(r) == IF r = "r1" THEN ErrorMessages ELSE {}

Next ==
  \E r \in Requests :
    Step(r, Users \cup {Null}, CookieValues, Fingerprints \cup {Null},
         FileNames \cup {Null}, SegmentCounts(r), TextsFor(r), MessagesFor(r),
         MaxSafeChars)

Spec == Init /\ [][Next]_vars

(***************************************************************************)
(* A long upload: one request, one more segment than SegmentDigits digits  *)
(* can number, every segment silent                                        *)
(***************************************************************************)
RECURSIVE Power(_, _)
Power(b, e) == IF e = 0 THEN 1 ELSE b * Power(b, e - 1)

LongCounts == {Power(10, SegmentDigits) + 1}

\* The tables, the disk and the two requests before a long upload.
TranscribeIdle ==
  /\ OPENAI_API_KEY = TRUE
  /\ dbInitialized = FALSE
  /\ visitors = {[id |-> 1, fingerprint |-> "fpA", upload_count |-> 0]}
  /\ users = [u \in Users |-> 0]
  /\ uuids = 1
  /\ disk = {}
  /\ req = [r \in Requests |-> NewRequest]
  /\ calls = [r \in Requests |-> <<>>]

InitLong ==
  chunking = NoChunking /\ client = NewClient /\ accounts = NewAccounts
  /\ fingerprinting = NewFingerprinting /\ SummarizeIdle /\ TranscribeIdle

NextLong ==
  Step("r1", {Null}, {NoId, 1}, {Null, "fpA"}, FileNames \cup {Null},
       LongCounts, {<<>>}, {"E1"}, MaxSafeChars)

SpecLong == InitLong /\ [][NextLong]_vars

(***************************************************************************)
(* POST /api/summarize                                                     *)
(***************************************************************************)
transcribeVars == <<OPENAI_API_KEY, dbInitialized, visitors, users, uuids, disk, req, calls>>

SUMMARY_INSTRUCTIONS ==
  [brief |-> "Provide a concise 2-4 sentence summary focused on the core message.",
   detailed |-> "Write a detailed summary with key context, major points, and any conclusions.",
   bullets |-> "Summarize the content as clear bullet points, each capturing a main idea.",
   action |-> "List action items, decisions, and next steps as short bullet points."]

\* What a template literal prints for the members every object literal
\* inherits, which SUMMARY_INSTRUCTIONS[key] finds too.
ObjectPrototype ==
  [toString |-> "function toString() { [native code] }",
   constructor |-> "function Object() { [native code] }"]

\* SUMMARY_INSTRUCTIONS[summaryType ?? "brief"] ?? SUMMARY_INSTRUCTIONS.brief
Instruction(summaryType) ==
  LET key == IF summaryType = Null THEN "brief" ELSE summaryType
  IN IF key \in DOMAIN SUMMARY_INSTRUCTIONS THEN SUMMARY_INSTRUCTIONS[key]
     ELSE IF key \in DOMAIN ObjectPrototype THEN ObjectPrototype[key]
     ELSE SUMMARY_INSTRUCTIONS.brief

\* String.prototype.toLowerCase on the provider names met here.
toLowerCase(name) ==
  CASE name = "OpenAI" -> "openai"
    [] name = "Anthropic" -> "anthropic"
    [] OTHER -> name

AnthropicKeyPrefix == <<"s", "k", "-", "a", "n", "t", "-">>

\* (OPUS_PROVIDER ?? "").toLowerCase() || (key.startsWith("sk-ant-") ? ... : ...)
Provider(providerEnv, apiKey) ==
  IF toLowerCase(providerEnv) # ""
  THEN toLowerCase(providerEnv)
  ELSE IF startsWith(apiKey, AnthropicKeyPrefix) THEN "anthropic"
       ELSE "openai-compatible"

\* Values of OPUS_API_BASE_URL: unset, the placeholder of the sample
\* environment file, a text new URL() rejects, an endpoint.
PlaceholderUrl == "https://your-opus-provider.example/v1/chat/completions"
InvalidUrl == "llm.example"
EndpointUrl == "https://llm.example/v1/chat/completions"
BaseUrls == {"", PlaceholderUrl, InvalidUrl, EndpointUrl}

MissingBaseUrl ==
  "Missing OPUS_API_BASE_URL for openai-compatible provider. Set it to something like https://.../v1/chat/completions"

\* The error the two URL closures throw, or Null when both return.
UrlError(provider, rawBaseUrl) ==
  LET unusable == rawBaseUrl = "" \/ rawBaseUrl = PlaceholderUrl
  IN IF provider = "openai-compatible" /\ unusable THEN MissingBaseUrl
     ELSE IF provider \in {"openai-compatible", "anthropic"}
             /\ ~unusable /\ rawBaseUrl = InvalidUrl THEN "Invalid URL"
     ELSE Null

\* The user prompts: a record holds the template and the values it
\* interpolates.
SinglePrompt(instruction, chunk) ==
  [template |-> "single", instruction |-> instruction, transcript |-> chunk]

\* i counts from 0 as in the loop.
PartialPrompt(i, chunks, instruction) ==
  [template |-> "partial", index |-> i + 1, of |-> Len(chunks),
   instruction |-> instruction, transcript |-> chunks[i + 1]]

\* The combine prompt labels the partials from 0 on.
CombinePrompt_ZeroBased(instruction, partials) ==
  [template |-> "combine", instruction |-> instruction,
   summaries |-> [k \in 1..Len(partials) |->
                    [label |-> k - 1, summary |-> partials[k]]]]

\* partials.map((s, i) => `Chunk ${i + 1} summary:\n${s}`).join("\n\n")
CombinePrompt(instruction, partials) ==
  [template |-> "combine", instruction |-> instruction,
   summaries |-> [k \in 1..Len(partials) |->
                    [label |-> (k - 1) + 1, summary |-> partials[k]]]]

\* NextResponse.json({ error }, { status })
SummarizeFail(status, error) ==
  [sreq EXCEPT !.pc = "done", !.awaiting = FALSE,
               !.response = [SummaryResponse(status) EXCEPT !.error = error]]

\* NextResponse.json({ summary })
SummarizeDone(summary) ==
  [sreq EXCEPT !.pc = "done", !.awaiting = FALSE,
               !.response = [SummaryResponse(200) EXCEPT !.summary = summary]]

\* request.json() settles and the handler runs up to its first call.
SummarizePost(bodies, maxChars) ==
  /\ sreq.pc = "idle"
  /\ \E body \in bodies :
       LET transcript == IF "transcript" \in DOMAIN body THEN body.transcript ELSE NoText
           summaryType == IF "summaryType" \in DOMAIN body THEN body.summaryType ELSE Null
           provider == Provider(OPUS_PROVIDER, OPUS_API_KEY)
           chunks == splitIntoChunks(transcript, maxChars)
           urlError == UrlError(provider, OPUS_API_BASE_URL)
       IN sreq' =
            IF Trim(transcript) = <<>>
            THEN SummarizeFail(400, "Transcript is required.")
            ELSE IF OPUS_API_KEY = <<>>
            THEN SummarizeFail(500, "Missing OPUS_API_KEY in environment.")
            ELSE IF urlError # Null
            THEN SummarizeFail(500, urlError)
            ELSE [sreq EXCEPT
                    !.transcript = transcript,
                    !.summaryType = summaryType,
                    !.instruction = Instruction(summaryType),
                    !.provider = provider,
                    !.chunks = chunks,
                    !.i = 0,
                    !.pc = IF Len(chunks) = 1 THEN "single"
                           ELSE IF Len(chunks) = 0 THEN "combine"
                           ELSE "partial"]
  /\ UNCHANGED <<fingerprinting, accounts, client, chunking,
                 transcribeVars, OPUS_API_KEY, OPUS_PROVIDER, OPUS_API_BASE_URL>>

\* runOnce(user): the request leaves for the provider; with a provider that
\* is neither of the two known ones the URL is undefined and fetch rejects.
RunOnce ==
  /\ sreq.pc \in {"single", "partial", "combine"}
  /\ ~sreq.awaiting
  /\ LET user == CASE sreq.pc = "single" ->
                        SinglePrompt(sreq.instruction, sreq.chunks[1])
                   [] sreq.pc = "partial" ->
                        PartialPrompt(sreq.i, sreq.chunks, sreq.instruction)
                   [] sreq.pc = "combine" ->
                        CombinePrompt(sreq.instruction, sreq.partials)
     IN sreq' = IF sreq.provider \notin {"anthropic", "openai-compatible"}
                THEN SummarizeFail(500,
                       "Failed to parse URL from undefined (ERR_INVALID_URL Invalid URL)")
                ELSE [sreq EXCEPT !.awaiting = TRUE, !.sent = Append(@, user)]
  /\ UNCHANGED <<fingerprinting, accounts, client, chunking,
                 transcribeVars, OPUS_API_KEY, OPUS_PROVIDER, OPUS_API_BASE_URL>>

\* The catch block of a call: whatever was thrown (an Error, the AbortError
\* of the timer, the SyntaxError of JSON.parse, the TypeError of fetch) leaves
\* the call as throw new Error(message).
Rethrown(message) == [name |-> "Error", message |-> message]

MissingContent(provider) ==
  IF provider = "anthropic" THEN "Anthropic response missing text."
  ELSE "Opus response missing content."

\* The provider answers 2xx with a body that parses; content is the text
\* found in it ("" when there is none).
ProviderReplies(contents) ==
  /\ sreq.awaiting
  /\ \E content \in contents :
       LET settled == [sreq EXCEPT !.settled = @ + 1, !.awaiting = FALSE]
           summary == Trim(content)
       IN sreq' =
            IF Trim(content) = <<>>
            THEN [SummarizeFail(500, MissingContent(sreq.provider))
                    EXCEPT !.settled = @ + 1,
                           !.cause = "content",
                           !.thrown = Rethrown(MissingContent(sreq.provider))]
            ELSE IF sreq.pc = "partial"
            THEN [settled EXCEPT
                    !.partials = Append(@, summary),
                    !.i = @ + 1,
                    !.pc = IF sreq.i + 1 < Len(sreq.chunks) THEN "partial" ELSE "combine"]
            ELSE [SummarizeDone(summary) EXCEPT !.settled = @ + 1]
  /\ UNCHANGED <<fingerprinting, accounts, client, chunking,
                 transcribeVars, OPUS_API_KEY, OPUS_PROVIDER, OPUS_API_BASE_URL>>

\* The ways a call fails other than by its content.
Failures == {"timeout", "status", "unparseable", "network"}

\* The message of the Error the call rethrows.
FailureMessage(provider, failure) ==
  CASE failure = "timeout" -> "This operation was aborted"
    [] failure = "status" ->
         IF provider = "anthropic" THEN "Anthropic request failed (500): Internal Server Error"
         ELSE "Opus request failed (500): Internal Server Error"
    [] failure = "unparseable" -> "Unexpected end of JSON input"
    [] failure = "network" -> "fetch failed (ECONNREFUSED connect ECONNREFUSED)"

\* A failed call answered with what the partial calls before it returned.
ProviderFails_ReturnsPartials(failures) ==
  /\ sreq.awaiting
  /\ \E failure \in failures :
       sreq' = [SummarizeDone(Join(sreq.partials, BlankLine))
                  EXCEPT !.settled = @ + 1,
                         !.cause = failure,
                         !.thrown = Rethrown(FailureMessage(sreq.provider, failure))]
  /\ UNCHANGED <<fingerprinting, accounts, client, chunking,
                 transcribeVars, OPUS_API_KEY, OPUS_PROVIDER, OPUS_API_BASE_URL>>

\* The call throws: the timer aborted it, the status was not 2xx, the body
\* was not JSON, or the connection failed.
ProviderFails(failures) ==
  /\ sreq.awaiting
  /\ \E failure \in failures :
       sreq' = [SummarizeFail(500, FailureMessage(sreq.provider, failure))
                  EXCEPT !.settled = @ + 1,
                         !.cause = failure,
                         !.thrown = Rethrown(FailureMessage(sreq.provider, failure))]
  /\ UNCHANGED <<fingerprinting, accounts, client, chunking,
                 transcribeVars, OPUS_API_KEY, OPUS_PROVIDER, OPUS_API_BASE_URL>>

\* The transcripts sent: up to MaxParagraphs pieces with a separator between
\* two of them.
Pieces == {<<>>, <<" ">>, <<"a">>, <<"a", "a">>}
Separators == {<<"\n">>, <<"\n", "\n">>, <<"\n", " ", "\n">>}

RECURSIVE TranscriptsOf(_)
TranscriptsOf(n) ==
  IF n <= 1 THEN Pieces
  ELSE LET shorter == TranscriptsOf(n - 1)
       IN shorter \cup {t \o sep \o piece :
                          t \in shorter, sep \in Separators, piece \in Pieces}

SummaryTypes == {"bullets", "haiku", "toString"}

\* The JSON bodies: either field may be missing.
Bodies ==
  LET transcripts == TranscriptsOf(MaxParagraphs)
  IN {[transcript |-> t, summaryType |-> k] : t \in transcripts, k \in SummaryTypes}
       \cup {[transcript |-> t] : t \in transcripts}
       \cup {[summaryType |-> k] : k \in SummaryTypes}

\* The texts found in the provider's answers.
Contents == {<<>>, <<"x">>, <<" ", "y">>}

ApiKeys == {<<>>, AnthropicKeyPrefix \o <<"1">>, <<"s", "k", "-", "1">>}

InitSummarize ==
  /\ chunking = NoChunking
  /\ client = NewClient
  /\ accounts = NewAccounts
  /\ fingerprinting = NewFingerprinting
  /\ TranscribeIdle
  /\ OPUS_API_KEY \in ApiKeys
  /\ OPUS_PROVIDER \in {"", "OpenAI"}
  /\ OPUS_API_BASE_URL \in BaseUrls
  /\ sreq = NewSummarize

NextSummarize ==
  \/ SummarizePost(Bodies, MaxSummaryChars)
  \/ RunOnce
  \/ ProviderReplies(Contents)
  \/ ProviderFails(Failures)

SpecSummarize == InitSummarize /\ [][NextSummarize]_vars

(***************************************************************************)
(* The two chunkers, each called on its own                                *)
(***************************************************************************)
\* The characters of the texts.
Alphabet == {"a", "b", " ", "\n"}

\* The texts of at most n characters.
TextsUpTo(n) == UNION {[1..k -> Alphabet] : k \in 0..n}

\* What the chunker of a policy returns.
Chunker(policy, text, maxChars) ==
  IF policy = "paragraphs" THEN splitIntoChunks(text, maxChars)
  ELSE splitTextByNewlines(text, maxChars)

\* The units a policy cuts a text into, and the separator it joins them with.
Units(policy, text) ==
  IF policy = "paragraphs" THEN SplitParagraphs(text) ELSE SplitLines(text)

Separator(policy) == IF policy = "paragraphs" THEN BlankLine ELSE NL

\* splitIntoChunks(text, maxChars) returns.
ChunkParagraphs ==
  /\ chunking.pc = "called"
  /\ chunking' = [chunking EXCEPT
                    !.pc = "returned",
                    !.policy = "paragraphs",
                    !.chunks = splitIntoChunks(chunking.text, chunking.maxChars)]
  /\ UNCHANGED <<fingerprinting, accounts, client, transcribeVars, summarizeVars>>

\* splitTextByNewlines(text, maxChars) returns.
ChunkLines ==
  /\ chunking.pc = "called"
  /\ chunking' = [chunking EXCEPT
                    !.pc = "returned",
                    !.policy = "lines",
                    !.chunks = splitTextByNewlines(chunking.text, chunking.maxChars)]
  /\ UNCHANGED <<fingerprinting, accounts, client, transcribeVars, summarizeVars>>

\* The same chunker is called on one of the chunks it returned.
ChunkAgain ==
  /\ chunking.pc = "returned"
  /\ \E k \in 1..Len(chunking.chunks) :
       chunking' = [chunking EXCEPT
                      !.pc = "again",
                      !.picked = k,
                      !.again = Chunker(chunking.policy, chunking.chunks[k],
                                        chunking.maxChars)]
  /\ UNCHANGED <<fingerprinting, accounts, client, transcribeVars, summarizeVars>>

InitChunker ==
  /\ client = NewClient
  /\ accounts = NewAccounts
  /\ fingerprinting = NewFingerprinting
  /\ TranscribeIdle
  /\ SummarizeIdle
  /\ \E text \in TextsUpTo(MaxTextLen), maxChars \in 1..MaxThreshold :
       chunking = [NoChunking EXCEPT !.pc = "called", !.text = text,
                                     !.maxChars = maxChars]

NextChunker == ChunkParagraphs \/ ChunkLines \/ ChunkAgain

SpecChunker == InitChunker /\ [][NextChunker]_vars

(***************************************************************************)
(* One submission of the page (handleSubmit), with both routes behind it   *)
(***************************************************************************)
\* The ids of SUMMARY_OPTIONS.
SummaryOptions == {"brief", "detailed", "bullets", "action"}

\* The two fetches of handleSubmit.
TranscribeUrl == "/api/transcribe"
SummarizeUrl == "/api/summarize"

\* The page has sent a request to url.
Sent(url) == \E k \in 1..Len(client.requests) : client.requests[k] = url

\* response.ok
Ok(response) == response.status \in 200..299

\* The request the page sends to POST /api/transcribe.
Submitted == "r1"

\* The catch block of handleSubmit without the finally block.
ClientCatch_StaysBusy(message) ==
  [client EXCEPT !.error = message, !.pc = "returned"]

\* The catch and finally blocks of handleSubmit.
ClientCatch(message) ==
  [client EXCEPT !.error = message, !.status = "idle", !.pc = "returned"]

\* handleSubmit up to its first fetch.
HandleSubmit ==
  /\ client.pc = "idle"
  /\ client' =
       IF client.file = Null
       THEN [client EXCEPT !.error = "Please upload a video first.",
                           !.pc = "returned"]
       ELSE IF client.limitReached
       THEN [client EXCEPT !.pc = "returned"]
       ELSE [client EXCEPT !.error = "", !.transcript = NoText,
                           !.summary = NoText, !.status = "transcribing",
                           !.pc = "transcribe",
                           !.requests = Append(@, TranscribeUrl)]
  /\ UNCHANGED <<fingerprinting, accounts, chunking, transcribeVars, summarizeVars>>

\* handleSubmit that takes every answer of /api/transcribe for a success.
TranscribeReturns_IgnoresOk ==
  /\ client.pc = "transcribe"
  /\ req[Submitted].pc = "done"
  /\ LET response == req[Submitted].response
     IN client' = [client EXCEPT
                     !.transcript = response.transcript,
                     !.status = "summarizing",
                     !.pc = "summarize",
                     !.requests = Append(@, SummarizeUrl)]
  /\ UNCHANGED <<fingerprinting, accounts, chunking, transcribeVars, summarizeVars>>

\* The fetch of /api/transcribe settles with the route's response: on a
\* status outside 2xx the page stops (limit_reached) or throws; on success it
\* keeps the transcript and sends it to /api/summarize.
TranscribeReturns ==
  /\ client.pc = "transcribe"
  /\ req[Submitted].pc = "done"
  /\ LET response == req[Submitted].response
     IN client' =
          IF ~Ok(response)
          THEN IF response.error = "limit_reached"
               THEN [client EXCEPT !.limitReached = TRUE, !.remaining = 0,
                                   !.status = "idle", !.pc = "returned"]
               ELSE ClientCatch(IF response.error # Null THEN response.error
                                ELSE "Transcription failed.")
          ELSE [client EXCEPT
                  !.transcript = response.transcript,
                  !.remaining = IF response.remaining # NoNumber
                                THEN response.remaining ELSE @,
                  !.limitReached = IF response.remaining = 0 THEN TRUE ELSE @,
                  !.status = "summarizing",
                  !.pc = "summarize",
                  !.requests = Append(@, SummarizeUrl)]
  /\ UNCHANGED <<fingerprinting, accounts, chunking, transcribeVars, summarizeVars>>

\* The fetch of /api/summarize settles with the route's response.
SummaryReturns ==
  /\ client.pc = "summarize"
  /\ sreq.pc = "done"
  /\ client' =
       IF ~Ok(sreq.response)
       THEN ClientCatch(IF sreq.response.error # Null THEN sreq.response.error
                        ELSE "Summary failed.")
       ELSE [client EXCEPT !.summary = sreq.response.summary,
                           !.status = "idle", !.pc = "returned"]
  /\ UNCHANGED <<fingerprinting, accounts, chunking, transcribeVars, summarizeVars>>

\* A fetch rejects (the network fails) or response.json() throws (the body
\* does not parse): the page stops waiting, whatever the route goes on to do.
FetchRejects(messages) ==
  /\ client.pc \in {"transcribe", "summarize"}
  /\ \E message \in messages : client' = ClientCatch(message)
  /\ UNCHANGED <<fingerprinting, accounts, chunking, transcribeVars, summarizeVars>>

\* POST /api/transcribe serves the request the page sent.
ServeTranscribe ==
  /\ Sent(TranscribeUrl)
  /\ Step(Submitted, Users \cup {Null}, CookieValues, {client.fingerprint},
          {client.file}, 0..MaxSegments, {<<>>, <<"a">>}, {"E1"}, MaxSafeChars)

\* POST /api/summarize serves the request the page sent.
ServeSummarize ==
  /\ Sent(SummarizeUrl)
  /\ \/ SummarizePost({[transcript |-> client.transcript,
                         summaryType |-> client.summaryType]}, MaxSummaryChars)
     \/ RunOnce
     \/ ProviderReplies(Contents)
     \/ ProviderFails(Failures)

\* The page as the user left it before pressing the button, after no earlier
\* submission or after one that used up the free uploads.
InitSubmit ==
  /\ chunking = NoChunking
  /\ accounts = NewAccounts
  /\ fingerprinting = NewFingerprinting
  /\ \E file \in FileNames \cup {Null}, fingerprint \in Fingerprints \cup {Null},
        summaryType \in SummaryOptions, limitReached \in BOOLEAN :
       client = [NewClient EXCEPT
                   !.file = file, !.fingerprint = fingerprint,
                   !.summaryType = summaryType,
                   !.limitReached = limitReached,
                   !.remaining = IF limitReached THEN 0 ELSE NoNumber]
  /\ OPENAI_API_KEY \in BOOLEAN
  /\ dbInitialized = FALSE
  /\ \E c \in InitialCounts :
       /\ visitors = {[id |-> 1, fingerprint |-> "fpA", upload_count |-> c[1]]}
       /\ users = [u \in Users |-> c[2]]
  /\ uuids = 1
  /\ disk = {}
  /\ req = [r \in Requests |-> NewRequest]
  /\ calls = [r \in Requests |-> <<>>]
  /\ OPUS_API_KEY \in {<<>>, AnthropicKeyPrefix \o <<"1">>}
  /\ OPUS_PROVIDER = ""
  /\ OPUS_API_BASE_URL = ""
  /\ sreq = NewSummarize

NextSubmit ==
  \/ HandleSubmit
  \/ ServeTranscribe
  \/ TranscribeReturns
  \/ ServeSummarize
  \/ SummaryReturns
  \/ FetchRejects({"Failed to fetch", "Unexpected end of JSON input"})

SpecSubmit == InitSubmit /\ [][NextSubmit]_vars

\* POST /api/transcribe serves the request the page sent, for a video of at
\* most one segment.
ServeTranscribeShort ==
  /\ Sent(TranscribeUrl)
  /\ Step(Submitted, Users \cup {Null}, {NoId, 1}, {client.fingerprint},
          {client.file}, {0, 1}, {<<>>, <<"a">>}, {"E1"}, MaxSafeChars)

\* The page with or without a file picked, before a short submission.
InitSubmitLive ==
  /\ chunking = NoChunking
  /\ accounts = NewAccounts
  /\ fingerprinting = NewFingerprinting
  /\ \E file \in FileNames \cup {Null}, fingerprint \in {Null, "fpA"},
        limitReached \in BOOLEAN :
       client = [NewClient EXCEPT
                   !.file = file, !.fingerprint = fingerprint,
                   !.limitReached = limitReached,
                   !.remaining = IF limitReached THEN 0 ELSE NoNumber]
  /\ OPENAI_API_KEY = TRUE
  /\ dbInitialized = FALSE
  /\ \E c \in {<<FREE_UPLOAD_LIMIT - 1, 0>>, <<FREE_UPLOAD_LIMIT, 0>>} :
       /\ visitors = {[id |-> 1, fingerprint |-> "fpA", upload_count |-> c[1]]}
       /\ users = [u \in Users |-> c[2]]
  /\ uuids = 1
  /\ disk = {}
  /\ req = [r \in Requests |-> NewRequest]
  /\ calls = [r \in Requests |-> <<>>]
  /\ OPUS_API_KEY \in {<<>>, AnthropicKeyPrefix \o <<"1">>}
  /\ OPUS_PROVIDER = ""
  /\ OPUS_API_BASE_URL = ""
  /\ sreq = NewSummarize

NextSubmitLive ==
  \/ HandleSubmit
  \/ ServeTranscribeShort
  \/ TranscribeReturns
  \/ ServeSummarize
  \/ SummaryReturns
  \/ FetchRejects({"Failed to fetch", "Unexpected end of JSON input"})

\* A short submission where the routes and the page's continuations keep
\* running: a step that can be taken is taken in the end.
SpecSubmitLive ==
  InitSubmitLive /\ [][NextSubmitLive]_vars /\ WF_vars(NextSubmitLive)

(***************************************************************************)
(* Signup and login (POST /api/auth/signup, POST /api/auth/login) beside   *)
(* transcription requests                                                  *)
(***************************************************************************)
\* String.prototype.toLowerCase on the letters of the emails met here.
LowerCase(text) ==
  [k \in 1..Len(text) |-> CASE text[k] = "U" -> "u"
                            [] text[k] = "N" -> "n"
                            [] OTHER -> text[k]]

\* The emails and the passwords the forms send.
Emails == {<<" ">>, <<"U", "@", "x">>, <<"N", "@", "x">>}
Passwords == {<<"p", "w">>, UserPassword}

\* The minimum length of a password (signup).
MinPasswordLength == 6

\* Values crypto.randomUUID() can still give createUser.
FreshUserIds == {"u2"}

\* The rows of getUserByEmail(email).
RowsByEmail(email) == {row \in accounts.rows : row.email = LowerCase(email)}

\* The signup handler answers.
SignupDone(status) ==
  [accounts EXCEPT !.signup.pc = "done", !.signup.status = status]

\* The login handler answers.
LoginDone(status) ==
  [accounts EXCEPT !.login.pc = "done", !.login.status = status]

\* The signup handler starts: initDatabase on the module's first request,
\* request.json() and the validation of email and password.
SignupPost(emails, passwords, messages) ==
  /\ accounts.signup.pc = "idle"
  /\ \/ /\ ~accounts.signupDb
        /\ Errors(messages) # {}
        /\ accounts' = SignupDone(500)
     \/ \E email \in emails, password \in passwords :
          accounts' =
            IF Trim(email) = <<>> \/ Len(password) < MinPasswordLength
            THEN [SignupDone(400) EXCEPT !.signupDb = TRUE]
            ELSE [accounts EXCEPT !.signupDb = TRUE,
                                  !.signup.email = email,
                                  !.signup.password = password,
                                  !.signup.pc = "getUserByEmail"]
  /\ UNCHANGED <<fingerprinting, client, chunking, transcribeVars, summarizeVars>>

\* getUserByEmail; without a row the handler reads the visitor_id cookie and
\* enters createUser, which draws the id of the new row.
SignupSelectEmail(cookies) ==
  /\ accounts.signup.pc = "getUserByEmail"
  /\ IF RowsByEmail(accounts.signup.email) # {}
     THEN accounts' = SignupDone(409)
     ELSE \E cookie \in cookies, id \in FreshUserIds :
            /\ id \notin DOMAIN users
            /\ accounts' = [accounts EXCEPT
                              !.signup.visitorId = cookie,
                              !.signup.id = id,
                              !.signup.pc = IF cookie # NoId THEN "selectVisitor"
                                            ELSE "insertUser"]
  /\ UNCHANGED <<fingerprinting, client, chunking, transcribeVars, summarizeVars>>

\* createUser: SELECT upload_count FROM visitors WHERE id = ?
SignupSelectVisitor ==
  /\ accounts.signup.pc = "selectVisitor"
  /\ accounts' = [accounts EXCEPT
                    !.signup.transferCount =
                       getUploadCount(visitors, accounts.signup.visitorId),
                    !.signup.pc = "insertUser"]
  /\ UNCHANGED <<fingerprinting, client, chunking, transcribeVars, summarizeVars>>

\* The row createUser inserts.
NewUserRow ==
  [id |-> accounts.signup.id,
   email |-> LowerCase(accounts.signup.email),
   password_hash |-> Hash(accounts.signup.password),
   visitor_id |-> accounts.signup.visitorId,
   logins |-> 0]

\* createUser that moves the visitor's count to the account: the visitor's
\* row is left with none.
SignupInsertUser_MovesCount ==
  /\ accounts.signup.pc = "insertUser"
  /\ users' = [u \in DOMAIN users \cup {accounts.signup.id} |->
                 IF u = accounts.signup.id THEN accounts.signup.transferCount
                 ELSE users[u]]
  /\ visitors' = {IF row.id = accounts.signup.visitorId
                  THEN [row EXCEPT !.upload_count = 0] ELSE row : row \in visitors}
  /\ accounts' = [SignupDone(200) EXCEPT
                    !.rows = @ \cup {NewUserRow},
                    !.signup.authCookie = accounts.signup.id]
  /\ UNCHANGED <<fingerprinting, client, chunking, summarizeVars,
                 OPENAI_API_KEY, dbInitialized, uuids, disk, req, calls>>

\* createUser: INSERT INTO users, with upload_count = transferCount; the
\* unique index on email rejects a second row of the same email. The handler
\* sets the auth cookie and answers.
SignupInsertUser ==
  /\ accounts.signup.pc = "insertUser"
  /\ IF RowsByEmail(accounts.signup.email) # {}
     THEN /\ accounts' = SignupDone(500)
          /\ UNCHANGED users
     ELSE /\ users' = [u \in DOMAIN users \cup {accounts.signup.id} |->
                        IF u = accounts.signup.id
                        THEN accounts.signup.transferCount
                        ELSE users[u]]
          /\ accounts' = [SignupDone(200) EXCEPT
                           !.rows = @ \cup {NewUserRow},
                           !.signup.authCookie = accounts.signup.id]
  /\ UNCHANGED <<fingerprinting, client, chunking, summarizeVars,
                 OPENAI_API_KEY, dbInitialized, visitors, uuids, disk, req, calls>>

\* A statement of getUserByEmail or createUser throws.
SignupFails(messages) ==
  /\ accounts.signup.pc \in {"getUserByEmail", "selectVisitor", "insertUser"}
  /\ Errors(messages) # {}
  /\ accounts' = SignupDone(500)
  /\ UNCHANGED <<fingerprinting, client, chunking, transcribeVars, summarizeVars>>

\* The login handler starts: initDatabase on the module's first request,
\* request.json() and the validation of email and password.
LoginPost(emails, passwords, messages) ==
  /\ accounts.login.pc = "idle"
  /\ \/ /\ ~accounts.loginDb
        /\ Errors(messages) # {}
        /\ accounts' = LoginDone(500)
     \/ \E email \in emails, password \in passwords :
          accounts' =
            IF Trim(email) = <<>> \/ password = <<>>
            THEN [LoginDone(400) EXCEPT !.loginDb = TRUE]
            ELSE [accounts EXCEPT !.loginDb = TRUE,
                                  !.login.email = email,
                                  !.login.password = password,
                                  !.login.pc = "getUserByEmail"]
  /\ UNCHANGED <<fingerprinting, client, chunking, transcribeVars, summarizeVars>>

\* getUserByEmail and verifyPassword.
LoginSelectEmail ==
  /\ accounts.login.pc = "getUserByEmail"
  /\ IF RowsByEmail(accounts.login.email) = {}
     THEN accounts' = LoginDone(401)
     ELSE \E row \in RowsByEmail(accounts.login.email) :
            accounts' =
              IF row.password_hash # Hash(accounts.login.password)
              THEN LoginDone(401)
              ELSE [accounts EXCEPT !.login.user = row.id,
                                    !.login.pc = "updateLastLogin"]
  /\ UNCHANGED <<fingerprinting, client, chunking, transcribeVars, summarizeVars>>

\* updateLastLogin: UPDATE users SET last_login_at = CURRENT_TIMESTAMP; the
\* handler sets the auth cookie and answers.
LoginUpdate ==
  /\ accounts.login.pc = "updateLastLogin"
  /\ accounts' = [LoginDone(200) EXCEPT
                    !.rows = {IF row.id = accounts.login.user
                              THEN [row EXCEPT !.logins = @ + 1]
                              ELSE row : row \in accounts.rows},
                    !.login.authCookie = accounts.login.user]
  /\ UNCHANGED <<fingerprinting, client, chunking, transcribeVars, summarizeVars>>

\* A statement of getUserByEmail or updateLastLogin throws.
LoginFails(messages) ==
  /\ accounts.login.pc \in {"getUserByEmail", "updateLastLogin"}
  /\ Errors(messages) # {}
  /\ accounts' = LoginDone(500)
  /\ UNCHANGED <<fingerprinting, client, chunking, transcribeVars, summarizeVars>>

\* The visitor_id cookies a browser can hold: none, one of no row, and the
\* id of every row.
VisitorCookies == {NoId, -1} \cup {row.id : row \in visitors}

\* Two transcription requests of one segment each: the first by a visitor,
\* new or known by its cookie, or by the holder of any account's auth
\* cookie, and any of its calls can fail; the second by the holder of an
\* auth cookie.
TranscribeBeside ==
  \E r \in Requests :
    Step(r, IF r = "r1" THEN DOMAIN users \cup {Null} ELSE DOMAIN users,
         {NoId, 1}, {Null}, FileNames, {1}, {<<"a">>},
         IF r = "r1" THEN {"E1"} ELSE {}, MaxSafeChars)

\* The tables before the requests: a visitor and an account without uploads,
\* or a visitor with one free upload left and an account with many.
InitAccounts ==
  /\ chunking = NoChunking
  /\ client = NewClient
  /\ accounts = NewAccounts
  /\ fingerprinting = NewFingerprinting
  /\ SummarizeIdle
  /\ OPENAI_API_KEY = TRUE
  /\ dbInitialized = FALSE
  /\ \E c \in {<<0, 0>>, <<FREE_UPLOAD_LIMIT - 1, FREE_UPLOAD_LIMIT>>} :
       /\ visitors = {[id |-> 1, fingerprint |-> "fpA", upload_count |-> c[1]]}
       /\ users = [u \in Users |-> c[2]]
  /\ uuids = 1
  /\ disk = {}
  /\ req = [r \in Requests |-> NewRequest]
  /\ calls = [r \in Requests |-> <<>>]

NextAccounts ==
  \/ TranscribeBeside
  \/ SignupPost(Emails, Passwords, {"E1"})
  \/ SignupSelectEmail(VisitorCookies)
  \/ SignupSelectVisitor
  \/ SignupInsertUser
  \/ SignupFails({"E1"})
  \/ LoginPost(Emails, Passwords, {"E1"})
  \/ LoginSelectEmail
  \/ LoginUpdate
  \/ LoginFails({"E1"})

SpecAccounts == InitAccounts /\ [][NextAccounts]_vars

(***************************************************************************)
(* Uploads under any file name the client sends                            *)
(***************************************************************************)
\* file.name as the multipart body gives it: a plain name, none, and one
\* that starts with a parent segment.
UploadNames == {"video.mp4", "", ParentPrefixed}

\* Two requests that upload a video of one segment under any of the names;
\* the calls of the first can fail.
NextStorage ==
  \E r \in Requests :
    Step(r, Users \cup {Null}, {NoId, 1}, IF r = "r1" THEN {Null, "fpA"} ELSE {Null},
         UploadNames \cup {Null}, {1},
         {<<"a">>}, IF r = "r1" THEN {"E1"} ELSE {}, MaxSafeChars)

SpecStorage == InitAccounts /\ [][NextStorage]_vars

(***************************************************************************)
(* lib/fingerprint: getFingerprint and its callers                         *)
(***************************************************************************)
\* if (x) on a string or null.
Truthy(x) == x \notin {Null, ""}

\* result.visitorId as the library gives it.
VisitorIds == {"fpA", "fpB", ""}

\* `fallback-${crypto.randomUUID()}`
FallbackIds == {"fallback-1", "fallback-2"}

\* The state of one caller.
Calling(c, pc, value) ==
  [fingerprinting.caller EXCEPT ![c] = [pc |-> pc, value |-> value]]

\* getFingerprint that starts a load whenever nothing is cached.
GetFingerprint_NoPromiseCheck(c) ==
  /\ fingerprinting.caller[c].pc \in {"idle", "resolved"}
  /\ fingerprinting' =
       IF Truthy(fingerprinting.cachedFingerprint)
       THEN [fingerprinting EXCEPT
               !.caller = Calling(c, "resolved", fingerprinting.cachedFingerprint)]
       ELSE [fingerprinting EXCEPT
               !.loadingPromise = "pending",
               !.stage = "load",
               !.loads = @ + 1,
               !.caller = Calling(c, "awaiting", Null)]
  /\ UNCHANGED <<accounts, client, chunking, transcribeVars, summarizeVars>>

\* One call of getFingerprint, up to its return: the cached value, the
\* promise of the load in progress, or a new load, whose body runs up to
\* FingerprintJS.load() before the call returns.
GetFingerprint(c) ==
  /\ fingerprinting.caller[c].pc \in {"idle", "resolved"}
  /\ fingerprinting' =
       IF Truthy(fingerprinting.cachedFingerprint)
       THEN [fingerprinting EXCEPT
               !.caller = Calling(c, "resolved", fingerprinting.cachedFingerprint)]
       ELSE IF fingerprinting.loadingPromise # Null
       THEN [fingerprinting EXCEPT !.caller = Calling(c, "awaiting", Null)]
       ELSE [fingerprinting EXCEPT
               !.loadingPromise = "pending",
               !.stage = "load",
               !.loads = @ + 1,
               !.caller = Calling(c, "awaiting", Null)]
  /\ UNCHANGED <<accounts, client, chunking, transcribeVars, summarizeVars>>

\* await FingerprintJS.load() settles with the agent.
LibraryLoads ==
  /\ fingerprinting.stage = "load"
  /\ fingerprinting' = [fingerprinting EXCEPT !.stage = "get"]
  /\ UNCHANGED <<accounts, client, chunking, transcribeVars, summarizeVars>>

\* await fp.get() settles with a result: the value is cached and the promise
\* is fulfilled with it.
LibraryGets(visitorIds) ==
  /\ fingerprinting.stage = "get"
  /\ \E id \in visitorIds :
       fingerprinting' = [fingerprinting EXCEPT
                            !.cachedFingerprint = id,
                            !.loadingPromise = "fulfilled",
                            !.settledWith = id,
                            !.stage = "done"]
  /\ UNCHANGED <<accounts, client, chunking, transcribeVars, summarizeVars>>

\* FingerprintJS.load() or fp.get() rejects: the catch block caches a
\* fallback id and the promise is fulfilled with it.
LibraryFails(fallbacks) ==
  /\ fingerprinting.stage \in {"load", "get"}
  /\ \E id \in fallbacks :
       fingerprinting' = [fingerprinting EXCEPT
                            !.cachedFingerprint = id,
                            !.loadingPromise = "fulfilled",
                            !.settledWith = id,
                            !.stage = "done"]
  /\ UNCHANGED <<accounts, client, chunking, transcribeVars, summarizeVars>>

\* The promise a call returned settles for its caller.
CallSettles(c) ==
  /\ fingerprinting.caller[c].pc = "awaiting"
  /\ fingerprinting.loadingPromise \in {"fulfilled", "rejected"}
  /\ fingerprinting' =
       [fingerprinting EXCEPT
          !.caller = IF fingerprinting.loadingPromise = "fulfilled"
                     THEN Calling(c, "resolved", fingerprinting.settledWith)
                     ELSE Calling(c, "rejected", Null)]
  /\ UNCHANGED <<accounts, client, chunking, transcribeVars, summarizeVars>>

InitFingerprint ==
  /\ chunking = NoChunking
  /\ client = NewClient
  /\ accounts = NewAccounts
  /\ fingerprinting = NewFingerprinting
  /\ TranscribeIdle
  /\ SummarizeIdle

NextFingerprint ==
  \/ \E c \in Callers : GetFingerprint(c)
  \/ LibraryLoads
  \/ LibraryGets(VisitorIds)
  \/ LibraryFails(FallbackIds)
  \/ \E c \in Callers : CallSettles(c)

SpecFingerprint == InitFingerprint /\ [][NextFingerprint]_vars

(***************************************************************************)
(* Properties                                                              *)
(***************************************************************************)
Done(r) == req[r].pc = "done"
Succeeded(r) == Done(r) /\ req[r].response.status = 200

\* The job directory of r has been created (and possibly removed again).
CreatedJobDir(r) ==
  /\ req[r].jobDir # NoId
  /\ <<req[r].jobDir>> \in disk \/ req[r].cleanup = "removed"

IsBlank(text) == Trim(text) = <<>>
NonBlank(texts) == SelectSeq(texts, LAMBDA t : ~IsBlank(t))

\* Every segment of r has been transcribed and the transcript assembled.
Assembled(r) ==
  /\ Len(req[r].chunkFiles) > 0
  /\ Len(req[r].replies) = Len(req[r].chunkFiles)
  /\ req[r].safeTranscript # NoText

\* The stored upload count of a visitor id (0 without a row) and of a user.
VisitorCount(rows, id) ==
  IF \E row \in rows : row.id = id
  THEN (CHOOSE row \in rows : row.id = id).upload_count
  ELSE 0

\* C1: every exit path of a request that created its job directory attempts
\* to remove it before the response is returned.
C1_CleanupOnEveryExit ==
  \A r \in Requests :
    (Done(r) /\ CreatedJobDir(r)) => req[r].cleanup \in {"removed", "failed"}

\* Some step of r changes a stored upload count.
CountChanges(r) ==
  \/ \E id \in 1..uuids : VisitorCount(visitors', id) # VisitorCount(visitors, id)
  \/ \E u \in Users : users'[u] # users[u]

\* r records its usage: the one count of its identity goes up by one, and no
\* other count changes.
RecordsUsage(r) ==
  /\ req[r].pc = "update" /\ req'[r].pc = "select"
  /\ req[r].recorded = 0 /\ req'[r].recorded = 1
  /\ Assembled(r)
  /\ IF req[r].loggedInUserId # Null
     THEN /\ users'[req[r].loggedInUserId] = users[req[r].loggedInUserId] + 1
          /\ \A u \in Users \ {req[r].loggedInUserId} : users'[u] = users[u]
          /\ \A id \in 1..uuids : VisitorCount(visitors', id) = VisitorCount(visitors, id)
     ELSE /\ VisitorCount(visitors', req[r].visitor.id)
               = VisitorCount(visitors, req[r].visitor.id) + 1
          /\ \A id \in (1..uuids) \ {req[r].visitor.id} :
               VisitorCount(visitors', id) = VisitorCount(visitors, id)
          /\ users' = users

\* C2: a stored upload count changes only when a request that has transcribed
\* every segment and assembled its transcript records its usage, by one and at
\* most once per request; a request that failed earlier has recorded nothing.
C2_UsageOnlyAfterTranscription ==
  /\ [](\A r \in Requests :
          /\ req[r].recorded <= 1
          /\ req[r].recorded = 1 => Assembled(r)
          /\ (Done(r) /\ ~Assembled(r)) => req[r].recorded = 0)
  /\ [][\A r \in Requests :
          (req'[r] # req[r] /\ CountChanges(r)) => RecordsUsage(r)]_vars

C2_Witness ==
  \E r \in Requests :
    /\ Succeeded(r) /\ req[r].recorded = 1 /\ Len(req[r].replies) >= 2
    /\ req[r].visitor.id # NoId
    /\ VisitorCount(visitors, req[r].visitor.id) = 1

\* C3: a visitor the pre-check denies gets the limit-reached error at once:
\* no working area, no extraction, no transcription call, no count changed.
C3_DeniedNeverStarts ==
  /\ [][\A r \in Requests :
          (/\ req[r].pc = "canUpload"
           /\ req'[r] # req[r]
           /\ VisitorCount(visitors, req[r].visitor.id) >= FREE_UPLOAD_LIMIT)
          => /\ req'[r].pc = "done"
             /\ req'[r].response.status = 403
             /\ req'[r].response.error = "limit_reached"
             /\ visitors' = visitors /\ users' = users /\ disk' = disk]_vars
  /\ [](\A r \in Requests :
          req[r].response.error = "limit_reached"
          => /\ Done(r)
             /\ req[r].jobDir = NoId
             /\ req[r].chunkFiles = <<>>
             /\ calls[r] = <<>>
             /\ req[r].recorded = 0
             /\ req[r].response.transcript = NoText)

C3_Witness ==
  \E r \in Requests :
    /\ req[r].response.error = "limit_reached"
    /\ VisitorCount(visitors, req[r].visitor.id) = FREE_UPLOAD_LIMIT

\* C4: for every stored count c (0 for an id without a row) canUpload gives
\* used = c, allowed = (c < 10), remaining = max(0, 10 - c); so 10 gives
\* (false, 0), 9 gives (true, 1), and allowed = false implies remaining = 0.
C4_CanUpload ==
  \A id \in 0..(uuids + 1) :
    LET c == VisitorCount(visitors, id)
        u == canUpload(visitors, id)
    IN /\ u.used = c
       /\ u.allowed = (c < 10)
       /\ u.remaining = (IF c < 10 THEN 10 - c ELSE 0)
       /\ c = 10 => (~u.allowed /\ u.remaining = 0)
       /\ c = 9 => (u.allowed /\ u.remaining = 1)
       /\ ~u.allowed => u.remaining = 0

C4_Witness ==
  \E r \in Requests :
    /\ req[r].response.status = 403
    /\ req[r].response.used = 10
    /\ req[r].response.remaining = 0
    /\ canUpload(visitors, req[r].visitor.id).allowed = FALSE

\* C5: a logged-in user is never looked up as a visitor, never checked against
\* the limit and never refused for it, whatever the stored count; a successful
\* transcription adds one to the user's count.
C5_UserNeverBlocked ==
  /\ [](\A r \in Requests :
          req[r].loggedInUserId # Null
          => /\ req[r].visitor = NoVisitor
             /\ req[r].lookup = NoLookup
             /\ req[r].pc \notin {"selectById", "selectByFingerprint",
                                  "insertVisitor", "canUpload"}
             /\ req[r].response.status # 403
             /\ req[r].response.error # "limit_reached"
             /\ Succeeded(r) => (req[r].recorded = 1 /\ req[r].response.unlimited))
  /\ [][\A r \in Requests :
          (/\ req[r].loggedInUserId # Null
           /\ req[r].pc = "update"
           /\ req'[r].pc = "select")
          => users'[req[r].loggedInUserId] = users[req[r].loggedInUserId] + 1]_vars

C5_Witness ==
  \E r \in Requests :
    /\ req[r].loggedInUserId # Null
    /\ Succeeded(r)
    /\ users[req[r].loggedInUserId] = FREE_UPLOAD_LIMIT + 1
    /\ req[r].response.used = FREE_UPLOAD_LIMIT + 1

\* C6: the sorted list of segment files, and so the order of the
\* transcription calls, is the order in which ffmpeg numbered the segments.
C6_TemporalOrder ==
  \A r \in Requests :
    /\ \A k \in 1..Len(req[r].chunkFiles) :
         basename(req[r].chunkFiles[k]) = SegmentName(k - 1)
    /\ \A k \in 1..Len(calls[r]) : calls[r][k] = SegmentName(k - 1)

\* C7: a blank reply is dropped and the request goes on; the parts kept are
\* the non-blank replies in order; when every reply is blank the transcript is
\* the placeholder, the request succeeds with it and the upload is counted.
C7_BlankSegments ==
  \A r \in Requests :
    /\ req[r].transcriptParts = NonBlank(req[r].replies)
    /\ (Len(req[r].chunkFiles) > 0 /\ Len(req[r].replies) = Len(req[r].chunkFiles))
       => /\ req[r].pc \in {"cleanup", "update", "select", "done"}
          /\ req[r].safeTranscript # <<>>
          /\ NonBlank(req[r].replies) = <<>> => req[r].safeTranscript = Placeholder
          /\ (Done(r) /\ req[r].thrown = NoError)
             => /\ req[r].response.status = 200
                /\ req[r].response.transcript = req[r].safeTranscript
                /\ req[r].recorded = 1
    /\ Succeeded(r) => req[r].response.transcript # <<>>

C7_Witness ==
  \E r \in Requests :
    /\ Succeeded(r)
    /\ Len(req[r].replies) >= 2
    /\ NonBlank(req[r].replies) = <<>>
    /\ req[r].response.transcript = Placeholder
    /\ req[r].recorded = 1

\* C8: when the extraction leaves no segment the request ends with status 500
\* and the media-extraction message; it makes no transcription call, has no
\* transcript and records no usage.
C8_ZeroSegments ==
  /\ [](\A r \in Requests :
          /\ (\/ req[r].pc \in {"transcribe", "cleanup", "update", "select"}
              \/ Succeeded(r)
              \/ calls[r] # <<>>
              \/ req[r].safeTranscript # NoText)
             => Len(req[r].chunkFiles) > 0
          /\ req[r].thrown = EmptyMedia
             => /\ Done(r)
                /\ req[r].response.status = 500
                /\ req[r].response.error = "Failed to extract audio chunks from the video."
                /\ req[r].response.transcript = NoText
                /\ calls[r] = <<>>
                /\ req[r].recorded = 0
                /\ readdir(disk, audioDir(req[r].jobDir)) = {})
  /\ [][\A r \in Requests :
          (/\ req[r].pc = "ffmpeg"
           /\ req'[r] # req[r]
           /\ readdir(disk', audioDir(req[r].jobDir)) = {})
          => /\ req'[r].pc = "done"
             /\ req'[r].response.status = 500
             /\ req'[r].thrown \in {EmptyMedia} \cup Errors(ErrorMessages)]_vars

C8_Witness ==
  \E r \in Requests :
    /\ Done(r)
    /\ req[r].thrown = EmptyMedia
    /\ req[r].response.error = EmptyMedia.message
    /\ audioDir(req[r].jobDir) \in disk

C10_CallSequence ==
  LET n == Len(sreq.chunks)
      total == IF n = 1 THEN 1 ELSE n + 1
  IN /\ sreq.pc \in {"single", "partial", "combine"} => n >= 1
     /\ sreq.pc = "single" <=> (sreq.pc # "done" /\ n = 1)
     /\ (sreq.transcript # NoText /\ Len(sreq.transcript) <= MaxSummaryChars) => n = 1
     /\ Len(sreq.sent) <= total
     /\ sreq.settled <= Len(sreq.sent)
     /\ Len(sreq.sent) <= sreq.settled + 1
     /\ \A k \in 1..Len(sreq.sent) :
          LET prompt == sreq.sent[k]
          IN IF n = 1
             THEN /\ prompt.template = "single"
                  /\ prompt.transcript = sreq.chunks[1]
             ELSE IF k <= n
             THEN /\ prompt.template = "partial"
                  /\ prompt.index = k
                  /\ prompt.of = n
                  /\ prompt.transcript = sreq.chunks[k]
             ELSE /\ prompt.template = "combine"
                  /\ sreq.settled >= n
                  /\ Len(sreq.partials) = n
                  /\ Len(prompt.summaries) = n
                  /\ \A j \in 1..n :
                       prompt.summaries[j] = [label |-> j, summary |-> sreq.partials[j]]
     /\ sreq.response.status = 200
        => (Len(sreq.sent) = total /\ sreq.settled = total)

C10_Witness ==
  /\ sreq.response.status = 200
  /\ Len(sreq.chunks) = 3
  /\ Len(sreq.sent) = 4
  /\ sreq.partials[1] # sreq.partials[2]

\* C11: once a call of the summarization pipeline has failed the request is
\* over: the failed call is the last one sent, the response is an error with no
\* summary, whatever partial summaries were obtained, and nothing changes after.
C11_FailureAborts ==
  /\ [](sreq.cause # Null
        => /\ sreq.pc = "done"
           /\ ~sreq.awaiting
           /\ Len(sreq.sent) = sreq.settled
           /\ sreq.settled = Len(sreq.partials) + 1
           /\ sreq.response.status = 500
           /\ sreq.response.error = sreq.thrown.message
           /\ sreq.response.error # Null
           /\ sreq.response.summary = NoText)
  /\ [][sreq.cause # Null => sreq' = sreq]_vars

C11_Witness ==
  /\ sreq.cause = "timeout"
  /\ Len(sreq.chunks) = 3
  /\ Len(sreq.partials) = 2
  /\ Len(sreq.sent) = 3
  /\ sreq.response.status = 500

\* The classes of failure the kinds are to tell apart.
CauseClass(cause) ==
  CASE cause = "timeout" -> "ProviderTimeoutError"
    [] cause = "status" -> "ProviderResponseError"
    [] cause \in {"unparseable", "content"} -> "ProviderContentError"
    [] OTHER -> "other"

\* The kind of the error a call fails with for a cause.
KindOf(provider, cause) ==
  IF cause = "content" THEN Rethrown(MissingContent(provider)).name
  ELSE Rethrown(FailureMessage(provider, cause)).name

\* C12: the kind of the error of a failed call tells a timeout, a non-2xx
\* response and a missing or unparseable body apart: no cause of another class
\* yields the kind of the failure that happened.
C12_DistinctKinds ==
  sreq.cause \in {"timeout", "status", "unparseable", "content"}
  => \A other \in {"timeout", "status", "unparseable", "content"} :
       CauseClass(other) # CauseClass(sreq.cause)
       => KindOf(sreq.provider, other) # sreq.thrown.name

\* C13: a tag of the table resolves to its own instruction; any other tag,
\* and a missing tag, resolve to the "brief" instruction.
C13_StyleResolution ==
  sreq.instruction # Null
  => sreq.instruction =
       (IF sreq.summaryType \in {"brief", "detailed", "bullets", "action"}
        THEN SUMMARY_INSTRUCTIONS[sreq.summaryType]
        ELSE SUMMARY_INSTRUCTIONS["brief"])

\* A chunker has returned.
Returned == chunking.pc \in {"returned", "again"}

InputUnits == Units(chunking.policy, chunking.text)

\* C14: a chunk longer than the threshold is one unit of the input, whole.
C14_ChunkSize ==
  Returned
  => \A k \in 1..Len(chunking.chunks) :
       \/ Len(chunking.chunks[k]) <= chunking.maxChars
       \/ /\ Len(Units(chunking.policy, chunking.chunks[k])) = 1
          /\ \E u \in 1..Len(InputUnits) : InputUnits[u] = chunking.chunks[k]

C14_Witness ==
  /\ Returned
  /\ \E k \in 1..Len(chunking.chunks) : Len(chunking.chunks[k]) > chunking.maxChars
  /\ Len(chunking.chunks) >= 2
  /\ Len(InputUnits) >= 3

\* C15 as stated: a text no longer than the threshold comes back as exactly
\* one chunk, the trimmed text.
C15_SmallTextAsStated ==
  (Returned /\ Len(chunking.text) <= chunking.maxChars)
  => /\ Len(chunking.chunks) = 1
     /\ chunking.chunks[1] = Trim(chunking.text)

\* C15 amended: a text no longer than the threshold comes back as no chunk
\* when it is blank, and otherwise as exactly one chunk, which trimmed is the
\* trimmed text with the policy's separator between its units.
C15_SmallText ==
  (Returned /\ Len(chunking.text) <= chunking.maxChars)
  => IF Trim(chunking.text) = <<>>
     THEN chunking.chunks = <<>>
     ELSE /\ Len(chunking.chunks) = 1
          /\ Trim(chunking.chunks[1])
               = Trim(Join(InputUnits, Separator(chunking.policy)))

C15_Witness ==
  /\ Returned
  /\ Len(chunking.text) = chunking.maxChars
  /\ Len(InputUnits) >= 2
  /\ Len(chunking.chunks) = 1
  /\ chunking.chunks[1] # Trim(chunking.text)

\* C16: the chunker called again on a chunk it returned, with the same
\* threshold, returns that chunk alone.
C16_Idempotent ==
  chunking.pc = "again" => chunking.again = <<chunking.chunks[chunking.picked]>>

RECURSIVE UnitsOfChunks(_, _, _)
\* The units of the chunks from chunk k on, in order.
UnitsOfChunks(policy, chunks, k) ==
  IF k > Len(chunks) THEN <<>>
  ELSE Units(policy, chunks[k]) \o UnitsOfChunks(policy, chunks, k + 1)

\* No unit is lost, cut, repeated or moved: the non-blank units of the chunks,
\* in order, are those of the input, and a unit longer than the threshold is a
\* chunk of its own.
UnitsKept ==
  /\ NonBlank(UnitsOfChunks(chunking.policy, chunking.chunks, 1)) = NonBlank(InputUnits)
  /\ NonBlank(Units(chunking.policy,
                    Join(chunking.chunks, Separator(chunking.policy))))
       = NonBlank(InputUnits)
  /\ \A u \in 1..Len(InputUnits) :
       (~IsBlank(InputUnits[u]) /\ Len(InputUnits[u]) > chunking.maxChars)
       => \E k \in 1..Len(chunking.chunks) : chunking.chunks[k] = InputUnits[u]

\* White space at the end of the input gives no chunk.
NoTrailingBlankChunk ==
  Len(chunking.chunks) > 0 => ~IsBlank(chunking.chunks[Len(chunking.chunks)])

\* C17: every unit of the input is whole in exactly one chunk, in input order,
\* the chunks joined give back the input up to its boundaries, and white space
\* at the end of the input gives no chunk of its own.
C17_NothingLost == Returned => (UnitsKept /\ NoTrailingBlankChunk)

\* C18: when removing the job directory fails after the transcription
\* succeeded, the failure is swallowed. The step leaves the request exactly
\* as a successful removal would, apart from the outcome of the removal, and
\* goes on to record the usage; a request that then completes answers 200
\* with the transcript and has recorded one use.
C18_CleanupFailureSwallowed ==
  /\ [](\A r \in Requests :
          req[r].cleanup = "failed"
          => /\ req[r].pc \in {"update", "select", "done"}
             /\ Assembled(r)
             /\ (req[r].pc = "select" => req[r].recorded = 1)
             /\ (Succeeded(r)
                 => /\ req[r].recorded = 1
                    /\ req[r].response.transcript = req[r].safeTranscript
                    /\ req[r].response.error = Null))
  /\ [][\A r \in Requests :
          (req[r].pc = "cleanup" /\ req'[r].cleanup = "failed")
          => /\ req'[r] = [req[r] EXCEPT !.cleanup = "failed", !.pc = "update"]
             /\ disk' = disk]_vars

C18_Witness ==
  \E r \in Requests :
    /\ req[r].cleanup = "failed"
    /\ Succeeded(r)
    /\ req[r].recorded = 1
    /\ <<req[r].jobDir>> \in disk

\* C19: one submission runs in order: the quota pre-check, then the
\* transcription, then the usage recording, then the summarization. The
\* service is called only by a request past the pre-check, usage is recorded
\* only for an assembled transcript, and the page sends the summarize request
\* only after /api/transcribe answered 200 with a transcript, which it
\* forwards, and after the usage was recorded; when /api/transcribe fails or
\* answers limit_reached, no summarize request is sent and the summarize
\* route never runs.
C19_SubmissionOrder ==
  /\ client.requests \in {<<>>, <<TranscribeUrl>>, <<TranscribeUrl, SummarizeUrl>>}
  /\ req[Submitted].pc # "idle" => Sent(TranscribeUrl)
  /\ calls[Submitted] # <<>>
     => /\ req[Submitted].pc \in {"transcribe", "cleanup", "update", "select", "done"}
        /\ req[Submitted].response.error # "limit_reached"
        /\ (req[Submitted].visitor # NoVisitor
            => req[Submitted].visitor.uploadCount < FREE_UPLOAD_LIMIT)
  /\ req[Submitted].recorded >= 1
     => /\ Assembled(Submitted)
        /\ req[Submitted].recorded = 1
        /\ req[Submitted].pc \in {"select", "done"}
  /\ (Sent(SummarizeUrl) \/ sreq # NewSummarize)
     => /\ Succeeded(Submitted)
        /\ req[Submitted].recorded = 1
        /\ req[Submitted].response.transcript # NoText
        /\ client.transcript = req[Submitted].response.transcript
        /\ sreq.pc # "idle" => sreq.transcript \in {NoText, client.transcript}
  /\ (Done(Submitted) /\ ~Succeeded(Submitted))
     => ~Sent(SummarizeUrl) /\ sreq = NewSummarize /\ client.transcript = NoText

C19_Witness ==
  /\ client.pc = "returned"
  /\ client.requests = <<TranscribeUrl, SummarizeUrl>>
  /\ client.summary # NoText
  /\ sreq.response.status = 200
  /\ Len(calls[Submitted]) = MaxSegments

C19_WitnessLimit ==
  /\ client.pc = "returned"
  /\ client.limitReached
  /\ req[Submitted].response.error = "limit_reached"

\* C20: no step of a quota check, a transcription request, a signup or a
\* login removes a row or lowers a stored upload_count, of a visitor or of an
\* account; and the UPDATE of incrementUpload / incrementUserUpload raises the
\* count of the request's own row by exactly one and leaves every other
\* count as it was.
C20_CountersMonotonic ==
  [][/\ \A row \in visitors :
          \E after \in visitors' :
            after.id = row.id /\ after.upload_count >= row.upload_count
     /\ \A u \in DOMAIN users : u \in DOMAIN users' /\ users'[u] >= users[u]
     /\ \A r \in Requests :
          (req[r].pc = "update" /\ req'[r].recorded = req[r].recorded + 1)
          => IF req[r].loggedInUserId # Null
             THEN /\ users'[req[r].loggedInUserId] = users[req[r].loggedInUserId] + 1
                  /\ \A u \in DOMAIN users \ {req[r].loggedInUserId} :
                       users'[u] = users[u]
                  /\ visitors' = visitors
             ELSE /\ VisitorCount(visitors', req[r].visitor.id)
                       = VisitorCount(visitors, req[r].visitor.id) + 1
                  /\ \A row \in visitors :
                       row.id # req[r].visitor.id => row \in visitors'
                  /\ users' = users]_vars

\* An account created by a signup that took over the uploads of a visitor has
\* since recorded an upload of its own, the visitor as well, and a login
\* went through.
C20_Witness ==
  /\ accounts.signup.status = 200
  /\ accounts.signup.transferCount >= 1
  /\ accounts.login.status = 200
  /\ users[accounts.signup.id] = accounts.signup.transferCount + 1
  /\ VisitorCount(visitors, accounts.signup.visitorId) > accounts.signup.transferCount

\* C21: the transcript the pipeline returns, the chunks of the line-based
\* chunker rejoined, is never longer than the chunker's threshold, whenever
\* the service produced text.
C21_SafePassBounds ==
  \A r \in Requests :
    (req[r].safeTranscript # NoText /\ req[r].transcriptParts # <<>>)
    => Len(req[r].safeTranscript) <= MaxSafeChars

\* C22: the working storage of a request is its own: every path on disk
\* lies in the job directory of a request, no two requests have the same job
\* directory, a step of a request adds paths to its own job directory only,
\* and the cleanup of a request removes paths of its own job directory only.
C22_ScopedStorage ==
  /\ [](/\ \A p \in disk : \E r \in Requests :
               req[r].jobDir # NoId /\ p[1] = req[r].jobDir
        /\ \A r, q \in Requests :
             (r # q /\ req[r].jobDir # NoId) => req[r].jobDir # req[q].jobDir)
  /\ [][\A r \in Requests :
          req'[r] # req[r]
          => /\ \A p \in disk' \ disk : p[1] = req[r].jobDir
             /\ \A p \in disk \ disk' : p[1] = req[r].jobDir]_vars

\* C23: whatever the interleaving of the requests of one visitor, the stored
\* upload count of a visitor never exceeds FREE_UPLOAD_LIMIT.
C23_LimitNeverExceeded ==
  \A row \in visitors : row.upload_count <= FREE_UPLOAD_LIMIT

\* C24: whatever the interleaving of the getOrCreateVisitor calls, the
\* visitors table holds at most one row for a fingerprint that is not null.
C24_OneRowPerFingerprint ==
  \A row, other \in visitors :
    (row.fingerprint # Null /\ row.fingerprint = other.fingerprint)
    => row.id = other.id

\* C25: every response of a request for which a new visitor row was created
\* sets the visitor_id cookie to the id of that row, whatever the outcome.
C25_CookieForNewVisitor ==
  \A r \in Requests :
    (Done(r) /\ req[r].visitor.isNew)
    => req[r].response.cookie = req[r].visitor.id

\* C26: for any interleaving of calls of getFingerprint the library is
\* loaded at most once, no call rejects, and every call that has resolved
\* gave the same value: the one value cached, the library's visitorId or a
\* fallback id.
C26_Memoized ==
  /\ fingerprinting.loads <= 1
  /\ fingerprinting.loadingPromise # "rejected"
  /\ \A c \in Callers :
       /\ fingerprinting.caller[c].pc # "rejected"
       /\ fingerprinting.caller[c].pc = "resolved"
          => /\ fingerprinting.caller[c].value = fingerprinting.cachedFingerprint
             /\ fingerprinting.caller[c].value = fingerprinting.settledWith
             /\ fingerprinting.caller[c].value \in VisitorIds \cup FallbackIds
  /\ \A c, d \in Callers :
       (fingerprinting.caller[c].pc = "resolved"
        /\ fingerprinting.caller[d].pc = "resolved")
       => fingerprinting.caller[c].value = fingerprinting.caller[d].value

\* Three calls made while the load was in progress all resolved to the
\* fallback id after the library failed.
C26_Witness ==
  /\ fingerprinting.loads = 1
  /\ fingerprinting.cachedFingerprint \in FallbackIds
  /\ \A c \in Callers : fingerprinting.caller[c].pc = "resolved"

\* C27: the page never stays busy. The status changes only from idle to
\* transcribing, from transcribing to summarizing or idle and from
\* summarizing to idle; it is summarizing only after /api/transcribe answered
\* 200 with the transcript the page holds; and once it is transcribing it
\* returns to idle, however the two requests settle.
C27_NeverStaysBusy ==
  /\ [](client.status = "summarizing"
        => /\ Succeeded(Submitted)
           /\ client.transcript = req[Submitted].response.transcript
           /\ Sent(SummarizeUrl))
  /\ [][client.status' # client.status
        => <<client.status, client.status'>> \in
             {<<"idle", "transcribing">>, <<"transcribing", "summarizing">>,
              <<"transcribing", "idle">>, <<"summarizing", "idle">>}]_vars
  /\ (client.status = "transcribing") ~> (client.status = "idle")
  /\ (client.status = "summarizing") ~> (client.status = "idle")

\* The page is idle again with an error shown, after the summarize request
\* it sent failed.
C27_Witness ==
  /\ client.status = "idle"
  /\ client.pc = "returned"
  /\ Sent(SummarizeUrl)
  /\ client.error # ""
  /\ client.summary = NoText
  /\ sreq.response.status = 500

=============================================================================
